---- MODULE Spec2Model ----
(***************************************************************************)
(* Scoring engine of the ticket quality review system: the score           *)
(* aggregator (tqrs/scoring/calculator.py), the performance bands          *)
(* (onsitereview/models/evaluation.py), the batch orchestrator             *)
(* (onsitereview/scoring/batch.py), the judge client with its retry loop   *)
(* (tqrs/llm/client.py) and the judge evaluator (tqrs/llm/evaluator.py).   *)
(*                                                                         *)
(* Each component is a state machine of its own (SpecScore, SpecBand,      *)
(* SpecGrade, SpecBatch, SpecClient, SpecEval); the variables of the       *)
(* components a specification does not exercise stay at their idle values. *)
(***************************************************************************)
EXTENDS Integers, Sequences, FiniteSets, TLC

VARIABLES
    \* ---- ScoringCalculator.calculate_score ----
    template,          \* TemplateType passed to calculate_score
    rule_results,      \* list[RuleResult] from the rule evaluators
    llm_results,       \* list[RuleResult] from the judge
    scoring_result,    \* the ScoringResult returned (NoScoringResult before the call)
    \* ---- PerformanceBand.from_percentage ----
    percentage,        \* the float argument, as a rational [num, den]
    band,              \* the band returned ("none" before the call)
    \* ---- EvaluationResult built from a final score ----
    total_score,       \* EvaluationResult.total_score (ScoringResult.final_score)
    max_score,         \* EvaluationResult.max_score
    grade,             \* pass flag and band, as calculate_score and as
                       \* EvaluationResult derive them (NoGrade before)
    \* ---- BatchTicketEvaluator.evaluate_batch / evaluate_batch_async ----
    tickets,           \* the input list
    mode,              \* "sequential" (evaluate_batch) or "async"
    concurrency,       \* self.concurrency
    results,           \* list[EvaluationResult]
    errors,            \* list[(ticket_number, error_message)]
    progress,          \* BatchProgress: total, completed, current_ticket, errors
    index,             \* sequential: iterations of the for loop done
    task_pc,           \* async: where each evaluate_one task is
    semaphore,         \* async: free slots of asyncio.Semaphore
    callbacks,         \* what each progress_callback invocation saw
    batch_result,      \* the BatchResult returned (status "running" before)
    \* ---- OpenAIClient.complete ----
    max_retries,       \* self.config.max_retries
    attempt,           \* iterations of the retry loop done
    last_error,        \* last_error of complete ("None" before a failure)
    responses,         \* what each request of this call met
    sleeps,            \* the delays slept, in order
    token_usage,       \* self.token_usage
    complete_result,   \* how complete ended (status "running" before)
    \* ---- LLMEvaluator.evaluate_ticket ----
    eval_template,     \* the template argument
    eval_index,        \* evaluations of the loop done
    eval_results,      \* the results list
    eval_outcomes,     \* what each evaluation met
    eval_status,       \* "running", "returned" or "raised"
    \* ---- CriticalProcessDetector.evaluate ----
    cp_ticket,         \* the ticket argument
    detected,          \* list(set(detected)), in the order the loop visits it
    cp_result,         \* the RuleResult returned (NoDetectorResult before)
    \* ---- ValidationDetector.evaluate ----
    val_ticket,        \* the ticket argument
    val_result,        \* the RuleResult returned (NoDetectorResult before)
    \* ---- token usage over the life of a client ----
    usage_op,          \* the operation that ran last
    usage_calls,       \* operations run so far
    \* ---- worker threads of a concurrent judge batch, sharing one client ----
    workers,           \* per thread: where it is in TokenUsage.add, the value
                       \* it loaded, the requests it has still to make
    reported,          \* the usage the responses so far reported, summed
    \* ---- ResultFormatter.collect_strengths / collect_improvements ----
    fmt_template,      \* the template argument
    fmt_results,       \* the results argument
    strengths,         \* what collect_strengths returned
    improvements,      \* what collect_improvements returned
    \* ---- ShortDescriptionValidator.validate ----
    short_description, \* ticket.short_description, as its segments
    ticket_lob,        \* ticket.line_of_business ("" when not set)
    sd_result          \* the RuleResult returned (NoShortResult before)

score_vars == <<template, rule_results, llm_results, scoring_result>>
band_vars == <<percentage, band>>
grade_vars == <<total_score, max_score, grade>>
batch_vars == <<tickets, mode, concurrency, results, errors, progress, index,
                task_pc, semaphore, callbacks, batch_result>>
client_vars == <<max_retries, attempt, last_error, responses, sleeps,
                 token_usage, complete_result>>
eval_vars == <<eval_template, eval_index, eval_results, eval_outcomes, eval_status>>
critical_vars == <<cp_ticket, detected, cp_result>>
validation_vars == <<val_ticket, val_result>>
usage_vars == <<usage_op, usage_calls>>
thread_vars == <<workers, reported>>
format_vars == <<fmt_template, fmt_results, strengths, improvements>>
short_vars == <<short_description, ticket_lob, sd_result>>
vars == <<template, rule_results, llm_results, scoring_result, percentage, band,
          total_score, max_score, grade,
          tickets, mode, concurrency, results, errors, progress, index,
          task_pc, semaphore, callbacks, batch_result,
          max_retries, attempt, last_error, responses, sleeps, token_usage,
          complete_result,
          eval_template, eval_index, eval_results, eval_outcomes, eval_status,
          cp_ticket, detected, cp_result, val_ticket, val_result,
          usage_op, usage_calls,
          workers, reported,
          fmt_template, fmt_results, strengths, improvements,
          short_description, ticket_lob, sd_result>>

(***************************************************************************)
(* Bounds of the model.                                                    *)
(***************************************************************************)
MaxRuleResults == 2
MaxLLMResults == 2
MaxTenths == 1001
MaxTickets == 3
MaxConcurrency == 2
MaxRetries == 5

\* All sequences over S of length at most n.
BoundedSeq(S, n) == UNION {[1..k -> S] : k \in 0..n}

RECURSIVE SumSeq(_)
SumSeq(s) == IF s = <<>> THEN 0 ELSE Head(s) + SumSeq(Tail(s))

Max(a, b) == IF a >= b THEN a ELSE b

(***************************************************************************)
(* Floats.  A percentage is kept as an exact rational num/den (den > 0).   *)
(* For the scores and maxima of this program (0..90 over 70 or 90) the     *)
(* IEEE double results of (s / max) * 100 and of round(x, 1) compare with  *)
(* the thresholds exactly as the rationals do.                             *)
(***************************************************************************)
Rat(n, d) == [num |-> n, den |-> d]

\* a >= k for a rational a and an integer k
RatGeq(a, k) == a.num >= k * a.den

\* Python round(x, 1): nearest multiple of 1/10, ties to even.
RoundHalfEven(n, d) ==
    LET q == n \div d
        r == n % d
    IN  IF 2 * r > d THEN q + 1
        ELSE IF 2 * r < d THEN q
        ELSE IF q % 2 = 0 THEN q ELSE q + 1

round1(x) == Rat(RoundHalfEven(x.num * 10, x.den), 10)

(***************************************************************************)
(* onsitereview/models/evaluation.py: PerformanceBand                      *)
(***************************************************************************)
BLUE == "blue"
GREEN == "green"
YELLOW == "yellow"
RED == "red"
PURPLE == "purple"
PerformanceBand == <<BLUE, GREEN, YELLOW, RED, PURPLE>>

from_percentage_offbyone(p) ==
    IF RatGeq(p, 95) THEN BLUE
    ELSE IF p.num > 90 * p.den THEN GREEN
    ELSE IF RatGeq(p, 75) THEN YELLOW
    ELSE IF RatGeq(p, 50) THEN RED
    ELSE PURPLE

from_percentage(p) ==
    IF RatGeq(p, 95) THEN BLUE
    ELSE IF RatGeq(p, 90) THEN GREEN
    ELSE IF RatGeq(p, 75) THEN YELLOW
    ELSE IF RatGeq(p, 50) THEN RED
    ELSE PURPLE

(***************************************************************************)
(* tqrs/scoring/templates.py: the criteria of the three templates.         *)
(***************************************************************************)
INCIDENT_LOGGING == "incident_logging"
INCIDENT_HANDLING == "incident_handling"
CUSTOMER_SERVICE == "customer_service"
TemplateType == {INCIDENT_LOGGING, INCIDENT_HANDLING, CUSTOMER_SERVICE}

TemplateCriterion(id, pts, ded) ==
    [criterion_id |-> id, max_points |-> pts, is_deduction |-> ded]

INCIDENT_LOGGING_CRITERIA == <<
    TemplateCriterion("critical_process_followed", 0, TRUE),
    TemplateCriterion("validation_performed", 0, TRUE),
    TemplateCriterion("correct_category", 10, FALSE),
    TemplateCriterion("correct_subcategory", 10, FALSE),
    TemplateCriterion("correct_service", 10, FALSE),
    TemplateCriterion("correct_ci", 10, FALSE),
    TemplateCriterion("short_description_format", 8, FALSE),
    TemplateCriterion("accurate_description", 20, FALSE),
    TemplateCriterion("spelling_grammar", 2, FALSE) >>

INCIDENT_HANDLING_CRITERIA == <<
    TemplateCriterion("critical_process_followed", 0, TRUE),
    TemplateCriterion("validation_performed", 0, TRUE),
    TemplateCriterion("correct_priority", 5, FALSE),
    TemplateCriterion("troubleshooting_quality", 20, FALSE),
    TemplateCriterion("interaction_vs_incident", 5, FALSE),
    TemplateCriterion("routing_resolving", 20, FALSE),
    TemplateCriterion("resolution_code", 5, FALSE),
    TemplateCriterion("resolution_notes", 15, FALSE) >>

CUSTOMER_SERVICE_CRITERIA == <<
    TemplateCriterion("critical_process_followed", 0, TRUE),
    TemplateCriterion("validation_performed", 0, TRUE),
    TemplateCriterion("greeting", 5, FALSE),
    TemplateCriterion("offer_work_around", 10, FALSE),
    TemplateCriterion("necessary_troubleshooting", 10, FALSE),
    TemplateCriterion("self_resolve_training", 10, FALSE),
    TemplateCriterion("resolution_follow_through", 10, FALSE),
    TemplateCriterion("closing_message", 5, FALSE),
    TemplateCriterion("general_customer_service", 20, FALSE) >>

TEMPLATE_CRITERIA ==
    [t \in TemplateType |->
        CASE t = INCIDENT_LOGGING -> INCIDENT_LOGGING_CRITERIA
          [] t = INCIDENT_HANDLING -> INCIDENT_HANDLING_CRITERIA
          [] t = CUSTOMER_SERVICE -> CUSTOMER_SERVICE_CRITERIA]

NoCriterion == TemplateCriterion("", 0, FALSE)   \* Python None

\* First criterion of the template with that id, None when there is none.
get_criterion_by_id(t, id) ==
    LET cs == TEMPLATE_CRITERIA[t]
        hits == {i \in 1..Len(cs) : cs[i].criterion_id = id}
    IN  IF hits = {} THEN NoCriterion
        ELSE cs[CHOOSE i \in hits : \A j \in hits : i <= j]

\* ScoringCalculator.__init__: _template_max_scores
template_max_scores == [t \in TemplateType |-> 70]

(***************************************************************************)
(* tqrs/rules/base.py: RuleResult.  score is int | str: a record that      *)
(* tells the two apart.                                                    *)
(***************************************************************************)
IntScore(n) == [isstr |-> FALSE, n |-> n, s |-> ""]
StrScore(s) == [isstr |-> TRUE, n |-> 0, s |-> s]

RuleResult(id, score) == [criterion_id |-> id, score |-> score]

\* str.upper() on the strings a score may carry
upper(s) ==
    CASE s = "pass" -> "PASS"
      [] s = "fail" -> "FAIL"
      [] s = "n/a" -> "N/A"
      [] OTHER -> s

\* int(str): the strings that parse, and their values; the others raise
\* ValueError.
IntLiterals == {"-15", "-35", "7"}
int(s) ==
    CASE s = "-15" -> -15
      [] s = "-35" -> -35
      [] s = "7" -> 7

is_auto_fail(result) == result.score.isstr /\ upper(result.score.s) = "FAIL"

(***************************************************************************)
(* tqrs/scoring/calculator.py: ScoringCalculator                           *)
(***************************************************************************)
PASS_THRESHOLD_PERCENTAGE == 90

\* auto_fail_reason: None, a fixed text, or the f-string naming a criterion
NoReason == [set |-> FALSE, text |-> "", criterion_id |-> ""]
Reason(text, id) == [set |-> TRUE, text |-> text, criterion_id |-> id]

ScoringResult(base, vd, cpd, final, max, af, reason, b, p) ==
    [returned |-> TRUE, base_score |-> base, validation_deduction |-> vd,
     critical_process_deduction |-> cpd, final_score |-> final,
     max_score |-> max, auto_fail |-> af, auto_fail_reason |-> reason,
     band |-> b, passed |-> p]

\* Before calculate_score has returned.
NoScoringResult ==
    [returned |-> FALSE, base_score |-> 0, validation_deduction |-> 0,
     critical_process_deduction |-> 0, final_score |-> 0, max_score |-> 0,
     auto_fail |-> FALSE, auto_fail_reason |-> NoReason, band |-> "none",
     passed |-> FALSE]

\* What one result adds to the total in the loop of _calculate_base_score.
base_score_term(result, t) ==
    LET criterion == get_criterion_by_id(t, result.criterion_id)
    IN  IF criterion # NoCriterion /\ criterion.is_deduction THEN 0
        ELSE IF result.score.isstr
             THEN IF upper(result.score.s) \in {"PASS", "FAIL", "N/A"} THEN 0
                  ELSE IF result.score.s \in IntLiterals
                       THEN (IF int(result.score.s) < 0 THEN 0
                             ELSE int(result.score.s))
                       ELSE 0
             ELSE IF result.score.n >= 0 THEN result.score.n ELSE 0

RECURSIVE calculate_base_score(_, _)
calculate_base_score(rs, t) ==
    IF rs = <<>> THEN 0
    ELSE base_score_term(Head(rs), t) + calculate_base_score(Tail(rs), t)

\* _get_deductions: the loop, carrying the two deductions found so far.
RECURSIVE get_deductions_from(_, _, _)
get_deductions_from(rs, vd, cpd) ==
    IF rs = <<>> THEN <<vd, cpd>>
    ELSE LET result == Head(rs)
             minus15 == \/ (result.score.isstr /\ result.score.s = "-15")
                        \/ (~result.score.isstr /\ result.score.n = -15)
             minus35 == \/ (result.score.isstr /\ result.score.s = "-35")
                        \/ (~result.score.isstr /\ result.score.n = -35)
         IN  IF result.criterion_id = "validation_performed"
             THEN get_deductions_from(Tail(rs),
                                      IF minus15 THEN -15 ELSE vd, cpd)
             ELSE IF result.criterion_id = "critical_process_followed"
                  THEN get_deductions_from(Tail(rs), vd,
                                           IF minus35 THEN -35 ELSE cpd)
                  ELSE get_deductions_from(Tail(rs), vd, cpd)

\* The critical process deduction is left out.
get_deductions_validation_only(rs) == <<get_deductions_from(rs, 0, 0)[1], 0>>

get_deductions(rs) == get_deductions_from(rs, 0, 0)

\* A check that looks at the first result only.
check_auto_fail_head_only(rs) ==
    IF rs # <<>> /\ is_auto_fail(Head(rs))
    THEN <<TRUE, Reason("Auto-fail on criterion: ", Head(rs).criterion_id)>>
    ELSE <<FALSE, NoReason>>

\* check_auto_fail: the first result that is an auto-fail decides the reason.
RECURSIVE check_auto_fail(_)
check_auto_fail(rs) ==
    IF rs = <<>> THEN <<FALSE, NoReason>>
    ELSE LET result == Head(rs)
         IN  IF is_auto_fail(result)
             THEN IF result.criterion_id = "validation_performed"
                  THEN <<TRUE, Reason("Validation not performed - colleague identity not verified", "")>>
                  ELSE IF result.criterion_id = "critical_process_followed"
                       THEN <<TRUE, Reason("Critical password process failure - security violation", "")>>
                       ELSE <<TRUE, Reason("Auto-fail on criterion: ", result.criterion_id)>>
             ELSE check_auto_fail(Tail(rs))

\* Lines 80-81 of calculate_score, and apply_deductions.
final_score_uncapped(base, vd, cpd) == base + vd + cpd

final_score_of(base, vd, cpd) == Max(0, base + vd + cpd)

\* Lines 84-87 of calculate_score: the unrounded percentage, its band and
\* the pass flag.
calculate_score_percentage(final, max) ==
    IF max > 0 THEN Rat(final * 100, max) ELSE Rat(0, 1)

calculate_score_band(final, max) ==
    from_percentage(calculate_score_percentage(final, max))

calculate_score_passed_strict(final, max) ==
    LET p == calculate_score_percentage(final, max) IN p.num > 90 * p.den

calculate_score_passed(final, max) ==
    RatGeq(calculate_score_percentage(final, max), PASS_THRESHOLD_PERCENTAGE)

calculate_score(rules, llm, t) ==
    LET all_results == rules \o llm
        af == check_auto_fail(all_results)
        template_max == template_max_scores[t]
        base_score == calculate_base_score(all_results, t)
        ded == get_deductions(all_results)
        final_score == final_score_of(base_score, ded[1], ded[2])
    IN  IF af[1]
        THEN ScoringResult(0, 0, 0, 0, template_max, TRUE, af[2], PURPLE, FALSE)
        ELSE ScoringResult(base_score, ded[1], ded[2], final_score, template_max,
                           FALSE, NoReason,
                           calculate_score_band(final_score, template_max),
                           calculate_score_passed(final_score, template_max))

(***************************************************************************)
(* The inputs of calculate_score: results a rule evaluator or the judge   *)
(* evaluator can hand over.  CriterionEvaluation bounds a judge score from *)
(* below only (ge=0), so a judge score above its criterion's maximum is an *)
(* input.                                                                  *)
(***************************************************************************)
RulePool == {
    RuleResult("validation_performed", StrScore("-15")),
    RuleResult("validation_performed", IntScore(-10)),
    RuleResult("validation_performed", StrScore("FAIL")),
    RuleResult("critical_process_followed", StrScore("-35")),
    RuleResult("critical_process_followed", StrScore("FAIL")),
    RuleResult("critical_process_followed", StrScore("N/A")),
    RuleResult("correct_category", IntScore(10)),
    RuleResult("correct_category", StrScore("fail")) }

LLMPool == {
    RuleResult("accurate_description", IntScore(20)),
    RuleResult("accurate_description", IntScore(71)),
    RuleResult("troubleshooting_quality", IntScore(20)),
    RuleResult("spelling_grammar", IntScore(2)) }

(***************************************************************************)
(* onsitereview/models/evaluation.py: the computed fields of               *)
(* EvaluationResult.                                                       *)
(***************************************************************************)
EvaluationResult_percentage(total, max) == round1(Rat(total * 100, max))

EvaluationResult_band(total, max) ==
    from_percentage(EvaluationResult_percentage(total, max))

EvaluationResult_passed(total, max) ==
    RatGeq(EvaluationResult_percentage(total, max), 90)

\* onsitereview/scoring/templates.py: get_max_score(), the sum of the
\* max_points of ONSITE_REVIEW_CRITERIA (5, 5, 5, 10, 10, 20, 15, 20).
ONSITE_REVIEW_MAX_POINTS == <<5, 5, 5, 10, 10, 20, 15, 20>>
get_max_score == SumSeq(ONSITE_REVIEW_MAX_POINTS)

\* The max scores of the templates of both generations.
TemplateMaxScores == {template_max_scores[t] : t \in TemplateType} \cup {get_max_score}

NoGrade ==
    [graded |-> FALSE, calc_band |-> "none", calc_passed |-> FALSE,
     percentage |-> Rat(0, 10), band |-> "none", passed |-> FALSE]

(***************************************************************************)
(* onsitereview/scoring/batch.py: BatchTicketEvaluator                     *)
(***************************************************************************)
\* What self.evaluator.evaluate_ticket(ticket) does for each kind of ticket:
\* it returns an EvaluationResult (total_score of 90, improvements) or it
\* raises.  An improvement is the string f"{criterion_name}: {coaching}",
\* kept as its two parts.
Improvement(name, text) == [criterion_name |-> name, text |-> text]

TicketKinds == {"good", "category", "service", "api_error", "value_error"}

TicketOutcome(kind) ==
    CASE kind = "good" ->
            [raises |-> FALSE, exception |-> "", message |-> "",
             total_score |-> 90, improvements |-> <<>>]
      [] kind = "category" ->
            [raises |-> FALSE, exception |-> "", message |-> "",
             total_score |-> 81,
             improvements |-> <<Improvement("Category", "coaching")>>]
      [] kind = "service" ->
            [raises |-> FALSE, exception |-> "", message |-> "",
             total_score |-> 36,
             improvements |-> <<Improvement("Service", "coaching"),
                                Improvement("Incident Notes", "coaching")>>]
      [] kind = "api_error" ->
            [raises |-> TRUE, exception |-> "LLMAPIError", message |-> "API Error",
             total_score |-> 0, improvements |-> <<>>]
      [] kind = "value_error" ->
            [raises |-> TRUE, exception |-> "ValueError", message |-> "bad value",
             total_score |-> 0, improvements |-> <<>>]

Ticket(n, kind) == [number |-> n, kind |-> kind]

EvaluationResult(ticket) ==
    [ticket_number |-> ticket.number,
     total_score |-> TicketOutcome(ticket.kind).total_score,
     max_score |-> get_max_score,
     improvements |-> TicketOutcome(ticket.kind).improvements]

\* The classes an except clause catches: "except Exception" catches every
\* exception a ticket evaluation raises.
LLMErrors == {"LLMError", "LLMRateLimitError", "LLMAPIError",
              "LLMValidationError", "LLMTimeoutError"}
Exceptions == LLMErrors \cup {"ValueError", "KeyError", "ValidationError"}

except_LLMError(exception) == exception \in LLMErrors

except_Exception(exception) == exception \in Exceptions

\* errors.append((ticket.number, str(e)))
append_error_overwrite(errs, ticket, message) == << <<ticket.number, message>> >>

append_error(errs, ticket, message) == Append(errs, <<ticket.number, message>>)

\* The result is put at the front of the list.
append_result_front(res, result) == <<result>> \o res

\* results.append(result)
append_result(res, result) == Append(res, result)

\* "async with semaphore": entering takes a slot
semaphore_acquire(sem) == sem - 1

\* A slot given back only by an evaluation that did not raise.
semaphore_release_on_success(sem, raised) == IF raised THEN sem ELSE sem + 1

\* "async with semaphore": leaving gives the slot back, exception or not
semaphore_release(sem, raised) == sem + 1

NoTicket == 0   \* progress.current_ticket = None

BatchProgress(total, completed) ==
    [total |-> total, completed |-> completed, current_ticket |-> NoTicket,
     errors |-> 0]

\* The error is counted as a second completion.
count_error_as_completed(p) == [p EXCEPT !.completed = @ + 1]

\* progress.errors += 1
count_error(p) == [p EXCEPT !.errors = @ + 1]

\* A completion counted only when the evaluation did not raise.
count_completed_unless_raised(p, raised) ==
    IF raised THEN p ELSE [p EXCEPT !.completed = @ + 1]

\* progress.completed += 1, after the try statement (sequential) or in its
\* finally clause (async): reached whether or not the evaluation raised
count_completed(p, raised) == [p EXCEPT !.completed = @ + 1]

\* What progress_callback(progress) observes when it is invoked.
Snapshot(p, res, errs) ==
    [completed |-> p.completed, errors |-> p.errors,
     current_ticket |-> p.current_ticket,
     results |-> Len(res), error_list |-> Len(errs)]

(***************************************************************************)
(* generate_summary                                                        *)
(***************************************************************************)
result_passed(r) == EvaluationResult_passed(r.total_score, r.max_score)
result_percentage(r) == EvaluationResult_percentage(r.total_score, r.max_score)
result_band(r) == EvaluationResult_band(r.total_score, r.max_score)

RECURSIVE sum_total_score(_)
sum_total_score(res) ==
    IF res = <<>> THEN 0 ELSE Head(res).total_score + sum_total_score(Tail(res))

\* sum(r.percentage for r in results), in tenths
RECURSIVE sum_percentage(_)
sum_percentage(res) ==
    IF res = <<>> THEN 0
    ELSE result_percentage(Head(res)).num + sum_percentage(Tail(res))

\* improvement.split(": ")[0]
issue_of(improvement) == improvement.criterion_name

\* The improvements of all results, in the order the two nested loops visit
\* them.
RECURSIVE all_issues(_)
all_issues(res) ==
    IF res = <<>> THEN <<>>
    ELSE [i \in 1..Len(Head(res).improvements) |->
             issue_of(Head(res).improvements[i])] \o all_issues(Tail(res))

\* Counter: the keys in insertion order, and the count of a key.
RECURSIVE counter_keys(_, _)
counter_keys(issues, seen) ==
    IF issues = <<>> THEN seen
    ELSE IF \E i \in 1..Len(seen) : seen[i] = Head(issues)
         THEN counter_keys(Tail(issues), seen)
         ELSE counter_keys(Tail(issues), Append(seen, Head(issues)))

counter_count(issues, key) ==
    Cardinality({i \in 1..Len(issues) : issues[i] = key})

\* Counter.most_common(n): the keys by decreasing count, keys of equal count
\* in insertion order, cut to n.
most_common_from(keys, issues, n) ==
    LET before(j, i) ==
            \/ counter_count(issues, keys[j]) > counter_count(issues, keys[i])
            \/ /\ counter_count(issues, keys[j]) = counter_count(issues, keys[i])
               /\ j < i
        position(i) == 1 + Cardinality({j \in 1..Len(keys) : before(j, i)})
    IN  [p \in 1..(IF n < Len(keys) THEN n ELSE Len(keys)) |->
            keys[CHOOSE i \in 1..Len(keys) : position(i) = p]]

TopIssues == 5

most_common(issues, n) == most_common_from(counter_keys(issues, <<>>), issues, n)

BatchEvaluationSummary(total, passed, failed, avg_score, avg_pct, bands, issues) ==
    [total_tickets |-> total, passed_count |-> passed, failed_count |-> failed,
     average_score |-> avg_score, average_percentage |-> avg_pct,
     band_distribution |-> bands, common_issues |-> issues]

BandValues == {PerformanceBand[i] : i \in 1..Len(PerformanceBand)}

generate_summary(res) ==
    IF res = <<>>
    THEN BatchEvaluationSummary(0, 0, 0, Rat(0, 10), Rat(0, 10),
                                [b \in {} |-> 0], <<>>)
    ELSE LET total == Len(res)
             passed == Cardinality({i \in 1..Len(res) : result_passed(res[i])})
         IN  BatchEvaluationSummary(
                 total, passed, total - passed,
                 round1(Rat(sum_total_score(res), total)),
                 round1(Rat(sum_percentage(res), 10 * total)),
                 [b \in BandValues |->
                     Cardinality({i \in 1..Len(res) : result_band(res[i]) = b})],
                 most_common(all_issues(res), TopIssues))

NoSummary == BatchEvaluationSummary(0, 0, 0, Rat(0, 10), Rat(0, 10),
                                    [b \in {} |-> 0], <<>>)

BatchResult(st, res, errs, summary) ==
    [status |-> st, results |-> res, errors |-> errs, summary |-> summary]

\* The results list evaluate_batch builds: the loop of lines 84-98 appends
\* the result of every ticket that does not raise, in input order.
RECURSIVE sequential_results(_)
sequential_results(ts) ==
    IF ts = <<>> THEN <<>>
    ELSE IF TicketOutcome(Head(ts).kind).raises
         THEN sequential_results(Tail(ts))
         ELSE <<EvaluationResult(Head(ts))>> \o sequential_results(Tail(ts))

(***************************************************************************)
(* tqrs/llm/client.py: OpenAIClient.complete and its retry loop            *)
(***************************************************************************)
\* What one call of self._client.chat.completions.create does, as the except
\* clauses of complete and the checks of _make_request tell it apart: a
\* response with JSON content, with empty content, with content that is not
\* JSON, or one of the exceptions.  "APIError5xx" is an APIError whose
\* status_code is at least 500, "APIError4xx" one whose status_code is
\* below 500, "APIErrorNoStatus" one whose status_code is None.
ResponseKinds == {"json", "empty", "not_json"}
TransportErrors == {"RateLimitError", "APIConnectionError", "APIError5xx",
                    "APIError4xx", "APIErrorNoStatus", "TimeoutError"}
RequestOutcomes == ResponseKinds \cup TransportErrors

\* status_code of the APIError kinds (0 stands for None: both are falsy)
status_code(kind) ==
    CASE kind = "APIError5xx" -> 503
      [] kind = "APIError4xx" -> 400
      [] OTHER -> 0

\* Every APIError is retried, whatever its status.
retries_any_api_error(kind) ==
    \/ kind \in {"RateLimitError", "APIConnectionError", "TimeoutError"}
    \/ kind \in {"APIError5xx", "APIError4xx", "APIErrorNoStatus"}

\* The handlers of complete that sleep and go on with the loop.
retries(kind) ==
    \/ kind \in {"RateLimitError", "APIConnectionError", "TimeoutError"}
    \/ (kind \in {"APIError5xx", "APIError4xx", "APIErrorNoStatus"}
        /\ status_code(kind) # 0 /\ status_code(kind) >= 500)

\* Only an empty content is taken for a validation failure.
validation_failure_empty_only(kind) == kind = "empty"

\* _make_request raises LLMValidationError: "if not content" and the
\* JSONDecodeError of json.loads(content)
validation_failure(kind) == kind \in {"empty", "not_json"}

\* ClientConfig.retry_delays, in seconds
retry_delays == <<1, 2, 4>>

\* _get_retry_delay(attempt), attempt counted from 0
get_retry_delay(att) ==
    IF att < Len(retry_delays) THEN retry_delays[att + 1]
    ELSE retry_delays[Len(retry_delays)] * 2

\* Lines 207-213: the error raised once the loop is over.
exhausted_error_untyped(last) == "LLMAPIError"

exhausted_error(last) ==
    IF last = "RateLimitError" THEN "LLMRateLimitError"
    ELSE IF last = "TimeoutError" THEN "LLMTimeoutError"
    ELSE "LLMAPIError"

NoError == "None"

\* TokenUsage and TokenUsage.add
TokenUsage(p, c, t, n) ==
    [prompt_tokens |-> p, completion_tokens |-> c, total_tokens |-> t,
     request_count |-> n]

\* response.usage of a response that reports usage
ResponseUsage == [prompt_tokens |-> 2, completion_tokens |-> 1, total_tokens |-> 3]

\* the usage figures a response may report
ResponseUsages ==
    {ResponseUsage,
     [prompt_tokens |-> 5, completion_tokens |-> 2, total_tokens |-> 7]}

TokenUsage_add(tu, usage) ==
    TokenUsage(tu.prompt_tokens + usage.prompt_tokens,
               tu.completion_tokens + usage.completion_tokens,
               tu.total_tokens + usage.total_tokens,
               tu.request_count + 1)

\* OpenAIClient.reset_usage: the fresh TokenUsage() it installs
reset_usage == TokenUsage(0, 0, 0, 0)

CompleteResult(st, exc) == [status |-> st, exception |-> exc]

(***************************************************************************)
(* tqrs/llm/evaluator.py: LLMEvaluator.evaluate_ticket                     *)
(***************************************************************************)
TEMPLATE_EVALUATIONS ==
    [t \in TemplateType |->
        CASE t = INCIDENT_LOGGING -> <<"description", "spelling_grammar">>
          [] t = INCIDENT_HANDLING ->
                <<"description", "troubleshooting", "resolution", "spelling_grammar">>
          [] t = CUSTOMER_SERVICE ->
                <<"description", "troubleshooting", "customer_service",
                  "spelling_grammar">>]

\* _create_error_result: criterion_map
criterion_map(eval_type) ==
    CASE eval_type = "description" -> <<"accurate_description", 20>>
      [] eval_type = "troubleshooting" -> <<"troubleshooting_quality", 20>>
      [] eval_type = "resolution" -> <<"resolution_notes", 15>>
      [] eval_type = "customer_service" -> <<"customer_service_quality", 20>>
      [] eval_type = "spelling_grammar" -> <<"spelling_grammar", 2>>
      [] OTHER -> <<"unknown", 0>>

\* The RuleResult the evaluator builds (lines 294-302 and 384-392); reasoning
\* and evidence are left out.  coaching "" stands for None.
JudgeResult(id, passed, score, max, coaching) ==
    [criterion_id |-> id, passed |-> passed, score |-> score,
     max_score |-> max, coaching |-> coaching]

MANUAL_REVIEW == "Unable to evaluate due to error. Please review manually."

create_error_result(eval_type) ==
    JudgeResult(criterion_map(eval_type)[1], FALSE, 0,
                criterion_map(eval_type)[2], MANUAL_REVIEW)

\* Line 92: results.append(self._create_error_result(eval_type, str(e)))
append_error_result_skipped(res, eval_type) == res

append_error_result(res, eval_type) == Append(res, create_error_result(eval_type))

\* What one evaluate_<type> call meets: client.complete raises one of its
\* errors, or returns a dict that validates ("valid"), one that validates
\* only after _parse_partial_response filled in defaults ("partial"), or
\* one that does not validate even then ("invalid": model_validate raises
\* ValidationError out of _parse_partial_response).
JudgeFailures == {"LLMRateLimitError", "LLMAPIError", "LLMTimeoutError",
                  "LLMValidationError", "invalid"}
JudgeScores == {"full", "zero"}
JudgeOutcomes ==
    [kind : {"valid", "partial"}, score : JudgeScores]
        \cup [kind : JudgeFailures, score : {"zero"}]

\* The exception class of a failed outcome
outcome_exception(o) == IF o.kind = "invalid" THEN "ValidationError" ELSE o.kind

\* tqrs/llm/prompts.py: the criterion id and max_score the prompt of each
\* evaluation asks the judge to answer with.
prompt_criterion(eval_type) ==
    CASE eval_type = "description" -> <<"accurate_description", 20>>
      [] eval_type = "troubleshooting" -> <<"troubleshooting_quality", 20>>
      [] eval_type = "resolution" -> <<"resolution_notes", 15>>
      [] eval_type = "customer_service" -> <<"customer_service_quality", 20>>
      [] eval_type = "spelling_grammar" -> <<"spelling_grammar", 2>>

\* The score of the validated response of a call.
response_score(o, eval_type) ==
    IF o.score = "full" THEN prompt_criterion(eval_type)[2] ELSE 0

\* _to_rule_result for a validated response
to_rule_result(o, eval_type) ==
    JudgeResult(prompt_criterion(eval_type)[1],
                response_score(o, eval_type) = prompt_criterion(eval_type)[2],
                response_score(o, eval_type),
                prompt_criterion(eval_type)[2],
                IF o.score = "full" THEN "" ELSE "coaching")

(***************************************************************************)
(* Ticket text.  A text field is kept as the set of phrases it is made of; *)
(* a regular expression is kept as the set of phrases of the vocabulary    *)
(* that re.search finds it in, so a list of patterns matches a text when   *)
(* one of its phrases is in the text.  (No pattern matches across two      *)
(* phrases of this vocabulary.)                                            *)
(***************************************************************************)
NoText == {}

Phrase(s) == IF s = "" THEN NoText ELSE {s}

\* " ".join([...]) of text fields
join(texts) == UNION texts

\* any(re.search(p, text, re.IGNORECASE) for p in patterns)
search_any(pats, text) == pats \cap text # {}

SubsetsUpTo(S, n) == {T \in SUBSET S : Cardinality(T) <= n}

(***************************************************************************)
(* tqrs/rules/critical_process.py: CriticalProcessDetector                 *)
(***************************************************************************)
CRITICAL_PROCESS_ID == "critical_process_followed"

CRITICAL_PROCESSES ==
    {"password_reset", "lost_stolen", "vip", "virus_malware", "data_privacy",
     "account_lockout"}

\* config["patterns"]
patterns(process_type) ==
    CASE process_type = "password_reset" -> {"password reset", "password reset requested"}
      [] process_type = "lost_stolen" -> {"lost laptop"}
      [] process_type = "vip" -> {"vip user"}
      [] process_type = "virus_malware" -> {"virus found"}
      [] process_type = "data_privacy" -> {"data breach"}
      [] process_type = "account_lockout" -> {"account locked"}

\* "subcategory_match" in config
has_subcategory_match(process_type) ==
    process_type \in {"password_reset", "lost_stolen", "virus_malware", "account_lockout"}

\* the subcategories that contain one of config["subcategory_match"]
subcategory_match(process_type) ==
    CASE process_type = "password_reset" -> {"password reset"}
      [] process_type = "virus_malware" -> {"security"}
      [] OTHER -> {}

\* config["priority_requirement"]
priority_requirement == {"1", "2"}

\* PASSWORD_COMPLIANCE
PASSWORD_COMPLIANCE(element) ==
    CASE element = "trusted_colleague" -> {"manager informed"}
      [] element = "password_delivery" -> {"temporary password issued"}
      [] element = "change_instruction" -> {"change password after login"}

escalation_patterns == {"escalated to security team"}

security_actions == {"escalated to security team"}

\* len(ticket.close_notes)
len(s) ==
    CASE s = "" -> 0
      [] s = "fixed" -> 5
      [] s = "resolved and user confirmed working" -> 35

CriticalTicket(short, desc, work, close, sub, prio) ==
    [short_description |-> short, description |-> desc, work_notes |-> work,
     close_notes |-> close, subcategory |-> sub, priority |-> prio]

DetectorResult(id, passed, score, reasoning, coaching) ==
    [criterion_id |-> id, passed |-> passed, score |-> score,
     reasoning |-> reasoning, coaching |-> coaching]

NoDetectorResult == DetectorResult("", FALSE, "", "", "None")

\* _detect_critical_processes, before list(set(...)) orders it
detect_critical_processes(t) ==
    LET full_text == join({Phrase(t.short_description), t.description,
                           Phrase(t.work_notes), Phrase(t.close_notes),
                           Phrase(t.subcategory)})
    IN  {p \in CRITICAL_PROCESSES :
            \/ has_subcategory_match(p) /\ t.subcategory \in subcategory_match(p)
            \/ search_any(patterns(p), full_text)}

\* description, work_notes and close_notes joined
notes_text(t) == join({t.description, Phrase(t.work_notes), Phrase(t.close_notes)})

\* A check that treats delivery evidence without the trusted colleague as a
\* documentation gap.
verify_password_reset_deduction(t) ==
    LET has_trusted == search_any(PASSWORD_COMPLIANCE("trusted_colleague"), notes_text(t))
        has_delivery == search_any(PASSWORD_COMPLIANCE("password_delivery"), notes_text(t))
        has_instruction == search_any(PASSWORD_COMPLIANCE("change_instruction"), notes_text(t))
    IN  IF has_trusted /\ (has_delivery \/ has_instruction)
        THEN DetectorResult(CRITICAL_PROCESS_ID, TRUE, "PASS",
                            "Password reset process followed", "None")
        ELSE IF has_trusted
        THEN DetectorResult(CRITICAL_PROCESS_ID, TRUE, "PASS",
                            "Password reset with trusted colleague documented",
                            "Consider also documenting password change instructions")
        ELSE IF has_delivery \/ has_instruction
        THEN DetectorResult(CRITICAL_PROCESS_ID, FALSE, "-35",
                            "Password reset without trusted colleague documentation",
                            "CRITICAL: Never send password directly to affected user")
        ELSE DetectorResult(CRITICAL_PROCESS_ID, FALSE, "FAIL",
                            "Password reset detected but no process documentation",
                            "Document password reset process")

verify_password_reset(t) ==
    LET has_trusted == search_any(PASSWORD_COMPLIANCE("trusted_colleague"), notes_text(t))
        has_delivery == search_any(PASSWORD_COMPLIANCE("password_delivery"), notes_text(t))
        has_instruction == search_any(PASSWORD_COMPLIANCE("change_instruction"), notes_text(t))
    IN  IF has_trusted /\ (has_delivery \/ has_instruction)
        THEN DetectorResult(CRITICAL_PROCESS_ID, TRUE, "PASS",
                            "Password reset process followed", "None")
        ELSE IF has_trusted
        THEN DetectorResult(CRITICAL_PROCESS_ID, TRUE, "PASS",
                            "Password reset with trusted colleague documented",
                            "Consider also documenting password change instructions")
        ELSE IF has_delivery \/ has_instruction
        THEN DetectorResult(CRITICAL_PROCESS_ID, FALSE, "FAIL",
                            "Password reset without trusted colleague documentation",
                            "CRITICAL: Never send password directly to affected user")
        ELSE DetectorResult(CRITICAL_PROCESS_ID, FALSE, "FAIL",
                            "Password reset detected but no process documentation",
                            "Document password reset process")

verify_vip_handling(t) ==
    IF t.priority \in priority_requirement
    THEN DetectorResult(CRITICAL_PROCESS_ID, TRUE, "PASS",
                        "VIP ticket handled with appropriate priority level", "None")
    ELSE DetectorResult(CRITICAL_PROCESS_ID, FALSE, "-35",
                        "VIP ticket should have priority 1/2",
                        "Set appropriate priority for VIP/executive support tickets")

verify_lost_stolen(t) ==
    IF search_any(escalation_patterns, notes_text(t))
    THEN DetectorResult(CRITICAL_PROCESS_ID, TRUE, "PASS",
                        "Lost/stolen device handled with appropriate escalation", "None")
    ELSE DetectorResult(CRITICAL_PROCESS_ID, FALSE, "-35",
                        "Lost/stolen device requires security escalation but none documented",
                        "For lost/stolen devices: disable, escalate, remote wipe")

verify_security_incident(t, incident_type) ==
    IF search_any(security_actions, notes_text(t))
    THEN DetectorResult(CRITICAL_PROCESS_ID, TRUE, "PASS",
                        "handled with appropriate security measures", "None")
    ELSE DetectorResult(CRITICAL_PROCESS_ID, FALSE, "-35",
                        "requires security response but none documented",
                        "Isolate affected system, escalate, document")

verify_documentation(t, process_type) ==
    IF t.close_notes # "" /\ len(t.close_notes) > 20
    THEN DetectorResult(CRITICAL_PROCESS_ID, TRUE, "PASS",
                        "handled and documented", "None")
    ELSE DetectorResult(CRITICAL_PROCESS_ID, FALSE, "-35",
                        "requires detailed documentation",
                        "Document all actions taken for critical processes")

verify_process_compliance(t, process_type) ==
    CASE process_type = "password_reset" -> verify_password_reset(t)
      [] process_type = "vip" -> verify_vip_handling(t)
      [] process_type = "lost_stolen" -> verify_lost_stolen(t)
      [] process_type = "virus_malware" -> verify_security_incident(t, "virus_malware")
      [] process_type = "data_privacy" -> verify_security_incident(t, "data_privacy")
      [] OTHER -> verify_documentation(t, process_type)

\* the orders list(set(detected)) can come out in
Orders(S) == {o \in [1..Cardinality(S) -> S] : \A i, j \in DOMAIN o : i # j => o[i] # o[j]}

RECURSIVE first_not_passed(_, _)
\* for process_type in detected: ... if not result.passed: return result
first_not_passed(t, order) ==
    IF order = <<>>
    THEN DetectorResult(CRITICAL_PROCESS_ID, TRUE, "PASS",
                        "All critical process requirements were followed correctly", "None")
    ELSE IF ~verify_process_compliance(t, Head(order)).passed
    THEN verify_process_compliance(t, Head(order))
    ELSE first_not_passed(t, Tail(order))

\* CriticalProcessDetector.evaluate, the detected list being in this order
critical_process_evaluate(t, order) ==
    IF order = <<>>
    THEN DetectorResult(CRITICAL_PROCESS_ID, TRUE, "N/A",
                        "Ticket does not involve a critical process", "None")
    ELSE first_not_passed(t, order)

ValidationTicket(contact, desc, work) ==
    [contact_type |-> contact, description |-> desc, work_notes |-> work]

(***************************************************************************)
(* tqrs/rules/validation.py: ValidationDetector                            *)
(***************************************************************************)
VALIDATION_ID == "validation_performed"

OKTA_PATTERNS == {"okta push sent", "okta verified"}

GUEST_CHAT_PATTERNS == {"guest chat"}

VALIDATION_ELEMENT_NAMES == {"name", "employee_id", "location"}

VALIDATION_ELEMENTS(element) ==
    CASE element = "name" -> {"full name given", "validated by name"}
      [] element = "employee_id" -> {"employee id given"}
      [] element = "location" -> {"office location given"}

\* the keyword patterns of _has_general_validation_mention
validation_keywords == {"okta verified", "validated by name", "caller validated"}

NO_VALIDATION_REQUIRED == {"self-service", "web", "system", "auto"}

\* ticket.contact_type.lower().strip()
lower_strip(s) ==
    CASE s = "Phone " -> "phone"
      [] s = " CHAT" -> "chat"
      [] s = "Email" -> "email"
      [] s = "Self-Service" -> "self-service"
      [] OTHER -> s

\* ticket.contact_type.lower()
lower(s) ==
    CASE s = "Phone " -> "phone "
      [] s = " CHAT" -> " chat"
      [] s = "Email" -> "email"
      [] s = "Self-Service" -> "self-service"
      [] OTHER -> s

\* "email" in s
contains_email(s) == s = "email"

has_okta_validation(text) == search_any(OKTA_PATTERNS, text)

has_guest_chat_validation(text) == search_any(GUEST_CHAT_PATTERNS, text)

has_general_validation_mention(text) == search_any(validation_keywords, text)

\* _check_validation_elements, as the set of elements found
check_validation_elements(text) ==
    {e \in VALIDATION_ELEMENT_NAMES : search_any(VALIDATION_ELEMENTS(e), text)}

no_validation_required(contact_type) ==
    DetectorResult(VALIDATION_ID, TRUE, "N/A",
                   "Contact type does not require caller validation", "None")

\* One documented element is taken as enough.
evaluate_phone_validation_one_element(t) ==
    LET desc == t.description
        full_text == join({t.description, t.work_notes})
        elements_found == check_validation_elements(full_text)
    IN  IF has_okta_validation(desc)
        THEN DetectorResult(VALIDATION_ID, TRUE, "PASS",
                            "OKTA Push/MFA validation documented", "None")
        ELSE IF Cardinality(elements_found) >= 1
        THEN DetectorResult(VALIDATION_ID, TRUE, "PASS",
                            "Phone validation documented", "None")
        ELSE IF has_general_validation_mention(full_text)
        THEN DetectorResult(VALIDATION_ID, FALSE, "-15",
                            "Validation mentioned but details not documented",
                            "Document specific validation method")
        ELSE DetectorResult(VALIDATION_ID, FALSE, "FAIL",
                            "Phone contact requires caller validation but none was documented",
                            "Always document caller validation")

evaluate_phone_validation(t) ==
    LET desc == t.description
        full_text == join({t.description, t.work_notes})
        elements_found == check_validation_elements(full_text)
    IN  IF has_okta_validation(desc)
        THEN DetectorResult(VALIDATION_ID, TRUE, "PASS",
                            "OKTA Push/MFA validation documented", "None")
        ELSE IF Cardinality(elements_found) >= 2
        THEN DetectorResult(VALIDATION_ID, TRUE, "PASS",
                            "Phone validation documented", "None")
        ELSE IF Cardinality(elements_found) = 1
        THEN DetectorResult(VALIDATION_ID, FALSE, "-15",
                            "Incomplete validation: only one element documented",
                            "Document additional validation elements")
        ELSE IF has_general_validation_mention(full_text)
        THEN DetectorResult(VALIDATION_ID, FALSE, "-15",
                            "Validation mentioned but details not documented",
                            "Document specific validation method")
        ELSE DetectorResult(VALIDATION_ID, FALSE, "FAIL",
                            "Phone contact requires caller validation but none was documented",
                            "Always document caller validation")

\* One documented element is taken as enough for chat.
evaluate_chat_validation_one_element(t) ==
    LET desc == t.description
    IN  IF has_okta_validation(desc)
        THEN DetectorResult(VALIDATION_ID, TRUE, "PASS",
                            "OKTA validation confirmed via chat", "None")
        ELSE IF has_guest_chat_validation(desc)
        THEN DetectorResult(VALIDATION_ID, TRUE, "PASS",
                            "Guest chat validation documented", "None")
        ELSE IF Cardinality(check_validation_elements(desc)) >= 1
        THEN DetectorResult(VALIDATION_ID, TRUE, "PASS",
                            "Chat validation with identity verification documented", "None")
        ELSE IF has_general_validation_mention(desc)
        THEN DetectorResult(VALIDATION_ID, FALSE, "-15",
                            "Validation mentioned but not fully documented",
                            "Specify validation method used for chat session")
        ELSE DetectorResult(VALIDATION_ID, FALSE, "-15",
                            "Chat contact should have validation documented",
                            "Document validation method")

evaluate_chat_validation(t) ==
    LET desc == t.description
    IN  IF has_okta_validation(desc)
        THEN DetectorResult(VALIDATION_ID, TRUE, "PASS",
                            "OKTA validation confirmed via chat", "None")
        ELSE IF has_guest_chat_validation(desc)
        THEN DetectorResult(VALIDATION_ID, TRUE, "PASS",
                            "Guest chat validation documented", "None")
        ELSE IF Cardinality(check_validation_elements(desc)) >= 2
        THEN DetectorResult(VALIDATION_ID, TRUE, "PASS",
                            "Chat validation with identity verification documented", "None")
        ELSE IF has_general_validation_mention(desc)
        THEN DetectorResult(VALIDATION_ID, FALSE, "-15",
                            "Validation mentioned but not fully documented",
                            "Specify validation method used for chat session")
        ELSE DetectorResult(VALIDATION_ID, FALSE, "-15",
                            "Chat contact should have validation documented",
                            "Document validation method")

evaluate_email_validation(t) ==
    LET desc == t.description
    IN  IF contains_email(lower(t.contact_type))
        THEN IF has_okta_validation(desc) \/ has_general_validation_mention(desc)
             THEN DetectorResult(VALIDATION_ID, TRUE, "PASS",
                                 "Email contact with validation documented", "None")
             ELSE DetectorResult(VALIDATION_ID, TRUE, "N/A",
                                 "Email from verified domain - explicit validation not required",
                                 "None")
        ELSE no_validation_required("email")

evaluate_unknown_contact(t, contact_type) ==
    LET desc == t.description
    IN  IF has_okta_validation(desc)
        THEN DetectorResult(VALIDATION_ID, TRUE, "PASS",
                            "OKTA validation documented", "None")
        ELSE IF Cardinality(check_validation_elements(desc)) >= 2
        THEN DetectorResult(VALIDATION_ID, TRUE, "PASS",
                            "Identity validation documented", "None")
        ELSE DetectorResult(VALIDATION_ID, TRUE, "N/A",
                            "Unknown contact type - validation not assessed", "None")

\* A dispatch that sends chat tickets through the phone rules.
validation_evaluate_chat_as_phone(t) ==
    LET contact_type == lower_strip(t.contact_type)
    IN  IF contact_type \in NO_VALIDATION_REQUIRED
        THEN no_validation_required(contact_type)
        ELSE IF contact_type \in {"phone", "chat"} THEN evaluate_phone_validation(t)
        ELSE IF contact_type = "email" THEN evaluate_email_validation(t)
        ELSE evaluate_unknown_contact(t, contact_type)

\* ValidationDetector.evaluate
validation_evaluate(t) ==
    LET contact_type == lower_strip(t.contact_type)
    IN  IF contact_type \in NO_VALIDATION_REQUIRED
        THEN no_validation_required(contact_type)
        ELSE IF contact_type = "phone" THEN evaluate_phone_validation(t)
        ELSE IF contact_type = "chat" THEN evaluate_chat_validation(t)
        ELSE IF contact_type = "email" THEN evaluate_email_validation(t)
        ELSE evaluate_unknown_contact(t, contact_type)

(***************************************************************************)
(* tqrs/scoring/formatter.py: ResultFormatter.collect_strengths and        *)
(* collect_improvements, as ScoringEvaluator calls them on rule_results +  *)
(* llm_results.  An entry of a list is kept as the criterion it is for and *)
(* the text after the criterion's name.                                    *)
(***************************************************************************)
STRENGTH_THRESHOLD == Rat(9, 10)
IMPROVEMENT_THRESHOLD == Rat(7, 10)

\* strengths[:5] and improvements[:5]
TopEntries == 5

Entry(id, text) == [criterion_id |-> id, text |-> text]

take(list, n) == SubSeq(list, 1, IF Len(list) < n THEN Len(list) ELSE n)

\* int(result.score) raises ValueError
score_not_int(result) == result.score.isstr /\ result.score.s \notin IntLiterals

score_val(result) ==
    IF result.score.isstr THEN int(result.score.s) ELSE result.score.n

\* What one result adds to strengths in the loop of collect_strengths.
strength_of(result, t) ==
    LET criterion == get_criterion_by_id(t, result.criterion_id)
    IN  IF criterion = NoCriterion THEN <<>>
        ELSE IF criterion.is_deduction
        THEN IF result.score.isstr /\ upper(result.score.s) = "PASS"
             THEN <<Entry(result.criterion_id, "Process followed correctly")>>
             ELSE <<>>
        ELSE IF criterion.max_points = 0 \/ score_not_int(result) THEN <<>>
        ELSE IF score_val(result) * STRENGTH_THRESHOLD.den
                   >= STRENGTH_THRESHOLD.num * criterion.max_points
             THEN <<Entry(result.criterion_id, "reasoning")>>
             ELSE <<>>

RECURSIVE all_strengths(_, _)
all_strengths(rs, t) ==
    IF rs = <<>> THEN <<>>
    ELSE strength_of(Head(rs), t) \o all_strengths(Tail(rs), t)

collect_strengths(rs, t) == take(all_strengths(rs, t), TopEntries)

\* What one result adds to improvements in the loop of collect_improvements.
improvement_of(result, t) ==
    LET criterion == get_criterion_by_id(t, result.criterion_id)
    IN  IF criterion = NoCriterion THEN <<>>
        ELSE IF criterion.is_deduction
        THEN IF ~result.score.isstr THEN <<>>
             ELSE IF upper(result.score.s) = "-15"
             THEN <<Entry(result.criterion_id, "Documentation needs improvement")>>
             ELSE IF upper(result.score.s) = "-35"
             THEN <<Entry(result.criterion_id, "Critical process not followed")>>
             ELSE IF upper(result.score.s) = "FAIL"
             THEN <<Entry(result.criterion_id, "Process failure - requires immediate attention")>>
             ELSE <<>>
        ELSE IF criterion.max_points = 0 \/ score_not_int(result) THEN <<>>
        ELSE IF score_val(result) * IMPROVEMENT_THRESHOLD.den
                   < IMPROVEMENT_THRESHOLD.num * criterion.max_points
             THEN <<Entry(result.criterion_id, "coaching")>>
             ELSE <<>>

RECURSIVE all_improvements(_, _)
all_improvements(rs, t) ==
    IF rs = <<>> THEN <<>>
    ELSE improvement_of(Head(rs), t) \o all_improvements(Tail(rs), t)

collect_improvements(rs, t) == take(all_improvements(rs, t), TopEntries)

\* Before the method has returned, and its list once it has.
NotCollected == [returned |-> FALSE, list |-> <<>>]
Collected(list) == [returned |-> TRUE, list |-> list]

(***************************************************************************)
(* tqrs/rules/short_description.py: ShortDescriptionValidator.             *)
(*                                                                         *)
(* A short description is kept as its separator (" - ", "-", or "none"     *)
(* when it has neither) and the segments split() cuts it into; a segment   *)
(* is a word of a small vocabulary, written without blanks around it.  The *)
(* tests on the characters of a word (its length, the LoB prefixes, the    *)
(* location patterns) are tables over the vocabulary.                      *)
(***************************************************************************)
SHORT_DESCRIPTION_ID == "short_description_format"

LongWord == "QQQQQQQQQQQQQQQQQQQQQQQQQQQQQQQQQQQQQQQQQQQQQQQQQQQ"

Words == {"", "MMC", "NCL", "x", "arsh", "London", LongWord}

word_len(w) ==
    CASE w = "" -> 0
      [] w = "x" -> 1
      [] w = "MMC" -> 3
      [] w = "NCL" -> 3
      [] w = "arsh" -> 4
      [] w = "London" -> 6
      [] w = "MMC-NCL" -> 7
      [] w = LongWord -> 51

\* A part of the parsed description: its text when it is a word, and its
\* length.  None and "" both have length 0, and the code tells them apart
\* nowhere.
Part(w, n) == [word |-> w, n |-> n]
NoPart == Part("", 0)
WordPart(w) == Part(w, word_len(w))

\* " - ".join(segments).strip(): joined text is no word of the vocabulary;
\* strip takes the blank off an end whose segment is empty.
joined(segs) ==
    IF Len(segs) = 1 THEN WordPart(segs[1])
    ELSE Part("joined",
              SumSeq([i \in 1..Len(segs) |-> word_len(segs[i])])
                + 3 * (Len(segs) - 1)
                - (IF segs[1] = "" THEN 1 ELSE 0)
                - (IF segs[Len(segs)] = "" THEN 1 ELSE 0))

ShortDescription(sep, segs) == [sep |-> sep, segs |-> segs]

\* ticket.short_description.strip() is empty
is_blank(sd) == sd.sep = "none" /\ sd.segs[1] = ""

\* ServiceNowTicket.get_line_of_business: the field when it is set, else
\* the LoB the prefix of the short description maps to, else "Unknown".
get_line_of_business(field, sd) ==
    IF field # "" THEN field
    ELSE IF sd.sep # "none" /\ sd.segs[1] = "MMC" THEN "MMC Corporate"
    ELSE "Unknown"

\* f"{lob}-{location}".upper() in LOB_PATTERNS
is_compound_lob(lob, location) ==
    lob.word = "MMC" /\ location.word = "NCL"

Parts(lob, location, app, brief) ==
    [lob |-> lob, location |-> location, app |-> app, brief |-> brief]

parse_parts(sd) ==
    LET segments == sd.segs
        n == Len(segments)
        first ==
            Parts(WordPart(segments[1]),
                  WordPart(segments[2]),
                  IF n >= 3 THEN WordPart(segments[3]) ELSE NoPart,
                  IF n >= 4 THEN joined(SubSeq(segments, 4, n)) ELSE NoPart)
    IN  IF sd.sep = "none"
        THEN Parts(NoPart, NoPart, NoPart, WordPart(segments[1]))
        ELSE IF first.lob.n > 0 /\ first.location.n > 0
                /\ is_compound_lob(first.lob, first.location)
             THEN Parts(WordPart("MMC-NCL"), first.app, first.brief,
                        IF n >= 5 THEN joined(SubSeq(segments, 5, n))
                        ELSE IF n = 4 THEN WordPart(segments[4])
                        ELSE NoPart)
             ELSE first

\* _is_valid_lob: a known pattern, a prefix of one or one's prefix, or the
\* ticket's line of business containing it or contained in it.
is_valid_lob(lob, tlob) ==
    \/ lob.word \in {"MMC", "MMC-NCL"}
    \/ lob.word = "arsh" /\ tlob = "Marsh"

\* _is_valid_location
is_valid_location(location) ==
    IF location.n < 2 THEN FALSE
    ELSE location.word \in {"MMC", "NCL", "arsh", "London", LongWord}

\* _is_valid_app
is_valid_app(app) ==
    IF app.n = 0 THEN FALSE ELSE 1 <= app.n /\ app.n <= 50

lob_issue(parts, tlob) ==
    IF parts.lob.n = 0 THEN <<"Missing Line of Business (LoB)">>
    ELSE IF ~is_valid_lob(parts.lob, tlob) THEN <<"Unrecognized LoB">>
    ELSE <<>>

location_issue(parts) ==
    IF parts.location.n = 0 THEN <<"Missing location">>
    ELSE IF ~is_valid_location(parts.location) /\ parts.location.n < 2
         THEN <<"Invalid location">>
         ELSE <<>>

app_issue(parts) ==
    IF parts.app.n = 0 THEN <<"Missing application/system">>
    ELSE IF ~is_valid_app(parts.app) /\ (parts.app.n < 1 \/ parts.app.n > 50)
         THEN <<"Invalid application">>
         ELSE <<>>

brief_issue(parts) ==
    IF parts.brief.n = 0 THEN <<"Missing brief description">>
    ELSE IF parts.brief.n < 3 THEN <<"Brief description too short">>
    ELSE <<>>

check_parts(parts, tlob) ==
    lob_issue(parts, tlob) \o location_issue(parts) \o app_issue(parts)
        \o brief_issue(parts)

\* A table that stops at two issues.
calculate_score_to_two(issue_count) ==
    CASE issue_count = 0 -> 8
      [] issue_count = 1 -> 6
      [] issue_count = 2 -> 4
      [] OTHER -> 0

\* _calculate_score: scores.get(issue_count, 0)
calculate_score_of(issue_count) ==
    CASE issue_count = 0 -> 8
      [] issue_count = 1 -> 6
      [] issue_count = 2 -> 4
      [] issue_count = 3 -> 2
      [] OTHER -> 0

ShortResult(passed, score, issues, coaching) ==
    [returned |-> TRUE, criterion_id |-> SHORT_DESCRIPTION_ID,
     passed |-> passed, score |-> score, issues |-> issues,
     coaching |-> coaching]

NoShortResult ==
    [returned |-> FALSE, criterion_id |-> SHORT_DESCRIPTION_ID,
     passed |-> FALSE, score |-> 0, issues |-> <<>>, coaching |-> "None"]

\* validate(ticket)
validate(sd, field) ==
    IF is_blank(sd)
    THEN ShortResult(FALSE, 0, <<>>, "Always provide a short description")
    ELSE LET parts == parse_parts(sd)
             issues == check_parts(parts, get_line_of_business(field, sd))
             score == calculate_score_of(Len(issues))
         IN  IF issues = <<>>
             THEN ShortResult(TRUE, score, issues, "None")
             ELSE ShortResult(score >= 6, score, issues, "Follow the 4-part format")

(***************************************************************************)
(* Idle values: the state of a component that a specification does not     *)
(* exercise.                                                               *)
(***************************************************************************)
BandIdle == percentage = Rat(0, 1) /\ band = "none"

GradeIdle == total_score = 0 /\ max_score = 70 /\ grade = NoGrade

ScoreIdle ==
    /\ template = INCIDENT_LOGGING
    /\ rule_results = <<>>
    /\ llm_results = <<>>
    /\ scoring_result = NoScoringResult

BatchIdle ==
    /\ tickets = <<>>
    /\ mode = "sequential"
    /\ concurrency = 1
    /\ results = <<>>
    /\ errors = <<>>
    /\ progress = BatchProgress(0, 0)
    /\ index = 0
    /\ task_pc = <<>>
    /\ semaphore = 1
    /\ callbacks = <<>>
    /\ batch_result = BatchResult("running", <<>>, <<>>, NoSummary)

ClientIdle ==
    /\ max_retries = 0
    /\ attempt = 0
    /\ last_error = NoError
    /\ responses = <<>>
    /\ sleeps = <<>>
    /\ token_usage = TokenUsage(0, 0, 0, 0)
    /\ complete_result = CompleteResult("running", NoError)

EvalIdle ==
    /\ eval_template = INCIDENT_LOGGING
    /\ eval_index = 0
    /\ eval_results = <<>>
    /\ eval_outcomes = <<>>
    /\ eval_status = "running"

CriticalIdle ==
    /\ cp_ticket = CriticalTicket("", {}, "", "", "", "3")
    /\ detected = <<>>
    /\ cp_result = NoDetectorResult

ValidationIdle ==
    /\ val_ticket = ValidationTicket("", {}, {})
    /\ val_result = NoDetectorResult

UsageIdle == usage_op = "init" /\ usage_calls = 0

ThreadIdle == workers = <<>> /\ reported = TokenUsage(0, 0, 0, 0)

FormatIdle ==
    /\ fmt_template = INCIDENT_LOGGING
    /\ fmt_results = <<>>
    /\ strengths = NotCollected
    /\ improvements = NotCollected

ShortIdle ==
    /\ short_description = ShortDescription("none", <<"">>)
    /\ ticket_lob = ""
    /\ sd_result = NoShortResult

(***************************************************************************)
(* ScoringCalculator.calculate_score on the lists of results.              *)
(***************************************************************************)
InitScore ==
    /\ template \in TemplateType
    /\ rule_results \in BoundedSeq(RulePool, MaxRuleResults)
    /\ llm_results \in BoundedSeq(LLMPool, MaxLLMResults)
    /\ scoring_result = NoScoringResult
    /\ BandIdle
    /\ GradeIdle
    /\ BatchIdle
    /\ ClientIdle
    /\ EvalIdle
    /\ CriticalIdle
    /\ ValidationIdle
    /\ UsageIdle
    /\ ThreadIdle
    /\ FormatIdle
    /\ ShortIdle

\* ScoringCalculator.calculate_score(rule_results, llm_results, template)
CalculateScore ==
    /\ ~scoring_result.returned
    /\ scoring_result' = calculate_score(rule_results, llm_results, template)
    /\ UNCHANGED <<template, rule_results, llm_results>>
    /\ UNCHANGED <<band_vars, grade_vars, batch_vars, client_vars, eval_vars,
                 critical_vars, validation_vars, usage_vars,
                 thread_vars, format_vars, short_vars>>

NextScore == CalculateScore

SpecScore == InitScore /\ [][NextScore]_vars

(***************************************************************************)
(* PerformanceBand.from_percentage on percentages given to one decimal.    *)
(***************************************************************************)
InitBand ==
    /\ percentage \in {Rat(t, 10) : t \in 0..MaxTenths}
    /\ band = "none"
    /\ ScoreIdle
    /\ GradeIdle
    /\ BatchIdle
    /\ ClientIdle
    /\ EvalIdle
    /\ CriticalIdle
    /\ ValidationIdle
    /\ UsageIdle
    /\ ThreadIdle
    /\ FormatIdle
    /\ ShortIdle

FromPercentage ==
    /\ band = "none"
    /\ band' = from_percentage(percentage)
    /\ UNCHANGED percentage
    /\ UNCHANGED <<score_vars, grade_vars, batch_vars, client_vars, eval_vars,
                 critical_vars, validation_vars, usage_vars,
                 thread_vars, format_vars, short_vars>>

NextBand == FromPercentage

SpecBand == InitBand /\ [][NextBand]_vars

(***************************************************************************)
(* Pass flag and band of a final score: the tail of calculate_score        *)
(* (unrounded percentage) and the EvaluationResult that TicketEvaluator    *)
(* builds from the same final score and max score (rounded percentage).    *)
(***************************************************************************)
InitGrade ==
    /\ max_score \in TemplateMaxScores
    /\ total_score \in 0..max_score
    /\ grade = NoGrade
    /\ ScoreIdle
    /\ BandIdle
    /\ BatchIdle
    /\ ClientIdle
    /\ EvalIdle
    /\ CriticalIdle
    /\ ValidationIdle
    /\ UsageIdle
    /\ ThreadIdle
    /\ FormatIdle
    /\ ShortIdle

Grade ==
    /\ ~grade.graded
    /\ grade' = [graded |-> TRUE,
                 calc_band |-> calculate_score_band(total_score, max_score),
                 calc_passed |-> calculate_score_passed(total_score, max_score),
                 percentage |-> EvaluationResult_percentage(total_score, max_score),
                 band |-> EvaluationResult_band(total_score, max_score),
                 passed |-> EvaluationResult_passed(total_score, max_score)]
    /\ UNCHANGED <<total_score, max_score>>
    /\ UNCHANGED <<score_vars, band_vars, batch_vars, client_vars, eval_vars,
                 critical_vars, validation_vars, usage_vars,
                 thread_vars, format_vars, short_vars>>

NextGrade == Grade

SpecGrade == InitGrade /\ [][NextGrade]_vars

(***************************************************************************)
(* BatchTicketEvaluator.evaluate_batch and evaluate_batch_async.           *)
(*                                                                         *)
(* The state starts where the locals of the call are set up (lines 78-82   *)
(* and 121-127).  In the async mode the coroutines run on one event loop:  *)
(* a task is suspended only while it waits for the semaphore and while the *)
(* executor evaluates its ticket.  asyncio.Lock.acquire does not suspend   *)
(* when the lock is free, and the lock is never held across an await, so   *)
(* what a task does after its evaluation finished up to its end is one     *)
(* step.  The semaphore serves its waiters first come first served, and    *)
(* gather starts the tasks in input order.                                 *)
(***************************************************************************)
InitBatch ==
    /\ \E n \in 0..MaxTickets :
          \E kinds \in [1..n -> TicketKinds] :
              tickets = [i \in 1..n |-> Ticket(i, kinds[i])]
    /\ mode \in {"sequential", "async"}
    /\ concurrency \in 1..MaxConcurrency
    /\ results = <<>>
    /\ errors = <<>>
    /\ progress = BatchProgress(Len(tickets), 0)
    /\ index = 0
    /\ task_pc = [i \in 1..Len(tickets) |-> "waiting"]
    /\ semaphore = concurrency
    /\ callbacks = <<>>
    /\ batch_result = BatchResult("running", <<>>, <<>>, NoSummary)
    /\ ScoreIdle
    /\ BandIdle
    /\ GradeIdle
    /\ ClientIdle
    /\ EvalIdle
    /\ CriticalIdle
    /\ ValidationIdle
    /\ UsageIdle
    /\ ThreadIdle
    /\ FormatIdle
    /\ ShortIdle

\* One iteration of the for loop of evaluate_batch (lines 84-98).
SeqIteration ==
    /\ mode = "sequential"
    /\ batch_result.status = "running"
    /\ index < Len(tickets)
    /\ LET ticket == tickets[index + 1]
           outcome == TicketOutcome(ticket.kind)
           started == [progress EXCEPT !.current_ticket = ticket.number]
       IN  /\ callbacks' = Append(callbacks, Snapshot(started, results, errors))
           /\ IF ~outcome.raises
              THEN /\ results' = append_result(results, EvaluationResult(ticket))
                   /\ progress' = count_completed(started, FALSE)
                   /\ UNCHANGED <<errors, batch_result>>
              ELSE IF except_Exception(outcome.exception)
                   THEN /\ errors' = append_error(errors, ticket, outcome.message)
                        /\ progress' = count_completed(count_error(started), TRUE)
                        /\ UNCHANGED <<results, batch_result>>
                   ELSE \* the exception leaves evaluate_batch
                        /\ batch_result' = BatchResult("raised", <<>>, <<>>, NoSummary)
                        /\ progress' = started
                        /\ UNCHANGED <<results, errors>>
    /\ index' = index + 1
    /\ UNCHANGED <<tickets, mode, concurrency, task_pc, semaphore>>
    /\ UNCHANGED <<score_vars, band_vars, grade_vars, client_vars, eval_vars,
                 critical_vars, validation_vars, usage_vars,
                 thread_vars, format_vars, short_vars>>

\* After the loop (lines 100-113), and after gather (lines 153-166): the
\* final callback, the summary, the BatchResult.
ReturnBatchResult ==
    /\ progress' = [progress EXCEPT !.current_ticket = NoTicket]
    /\ callbacks' = Append(callbacks, Snapshot(progress', results, errors))
    /\ batch_result' = BatchResult("returned", results, errors,
                                   generate_summary(results))
    /\ UNCHANGED <<tickets, mode, concurrency, results, errors, index,
                   task_pc, semaphore>>
    /\ UNCHANGED <<score_vars, band_vars, grade_vars, client_vars, eval_vars,
                 critical_vars, validation_vars, usage_vars,
                 thread_vars, format_vars, short_vars>>

SeqReturn ==
    /\ mode = "sequential"
    /\ batch_result.status = "running"
    /\ index = Len(tickets)
    /\ ReturnBatchResult

\* evaluate_one enters "async with semaphore" and hands the evaluation to
\* the executor (lines 131-136).
TaskAcquire(i) ==
    /\ mode = "async"
    /\ batch_result.status = "running"
    /\ task_pc[i] = "waiting"
    /\ semaphore > 0
    /\ \A j \in 1..(i - 1) : task_pc[j] # "waiting"
    /\ semaphore' = semaphore_acquire(semaphore)
    /\ task_pc' = [task_pc EXCEPT ![i] = "running"]
    /\ UNCHANGED <<tickets, mode, concurrency, results, errors, progress,
                   index, callbacks, batch_result>>
    /\ UNCHANGED <<score_vars, band_vars, grade_vars, client_vars, eval_vars,
                 critical_vars, validation_vars, usage_vars,
                 thread_vars, format_vars, short_vars>>

\* The executor is done with ticket i: the rest of evaluate_one (lines
\* 137-149) and the release of the semaphore.
TaskComplete(i) ==
    /\ mode = "async"
    /\ batch_result.status = "running"
    /\ task_pc[i] = "running"
    /\ LET ticket == tickets[i]
           outcome == TicketOutcome(ticket.kind)
           finally(p) == [count_completed(p, outcome.raises)
                             EXCEPT !.current_ticket = ticket.number]
       IN  /\ IF ~outcome.raises
              THEN /\ results' = append_result(results, EvaluationResult(ticket))
                   /\ progress' = finally(progress)
                   /\ UNCHANGED <<errors, batch_result>>
              ELSE IF except_Exception(outcome.exception)
                   THEN /\ errors' = append_error(errors, ticket, outcome.message)
                        /\ progress' = finally(count_error(progress))
                        /\ UNCHANGED <<results, batch_result>>
                   ELSE \* finally runs, then gather raises the exception
                        /\ batch_result' = BatchResult("raised", <<>>, <<>>, NoSummary)
                        /\ progress' = finally(progress)
                        /\ UNCHANGED <<results, errors>>
           /\ callbacks' = Append(callbacks, Snapshot(progress', results', errors'))
    /\ semaphore' = semaphore_release(semaphore, TicketOutcome(tickets[i].kind).raises)
    /\ task_pc' = [task_pc EXCEPT ![i] = "done"]
    /\ UNCHANGED <<tickets, mode, concurrency, index>>
    /\ UNCHANGED <<score_vars, band_vars, grade_vars, client_vars, eval_vars,
                 critical_vars, validation_vars, usage_vars,
                 thread_vars, format_vars, short_vars>>

AsyncReturn ==
    /\ mode = "async"
    /\ batch_result.status = "running"
    /\ \A i \in 1..Len(tickets) : task_pc[i] = "done"
    /\ ReturnBatchResult

NextBatch ==
    \/ SeqIteration
    \/ SeqReturn
    \/ \E i \in 1..Len(tickets) : TaskAcquire(i)
    \/ \E i \in 1..Len(tickets) : TaskComplete(i)
    \/ AsyncReturn

SpecBatch == InitBatch /\ [][NextBatch]_vars

(***************************************************************************)
(* OpenAIClient.complete: one call, from its first line to its return or   *)
(* raise.  Each step is one iteration of the retry loop: the request, the  *)
(* handler of what it met, the sleep, and, when it was the last iteration, *)
(* the raise after the loop.                                               *)
(***************************************************************************)
InitClient ==
    /\ max_retries \in 0..MaxRetries
    /\ attempt = 0
    /\ last_error = NoError
    /\ responses = <<>>
    /\ sleeps = <<>>
    /\ token_usage = TokenUsage(0, 0, 0, 0)
    /\ complete_result = CompleteResult("running", NoError)
    /\ ScoreIdle
    /\ BandIdle
    /\ GradeIdle
    /\ BatchIdle
    /\ EvalIdle
    /\ CriticalIdle
    /\ ValidationIdle
    /\ UsageIdle
    /\ ThreadIdle
    /\ FormatIdle
    /\ ShortIdle

\* One iteration of "for attempt in range(self.config.max_retries)".
Attempt(kind, has_usage) ==
    /\ complete_result.status = "running"
    /\ attempt < max_retries
    /\ responses' = Append(responses, [kind |-> kind, has_usage |-> has_usage])
    /\ token_usage' = IF kind \in ResponseKinds /\ has_usage
                      THEN TokenUsage_add(token_usage, ResponseUsage)
                      ELSE token_usage
    /\ attempt' = attempt + 1
    /\ IF kind = "json"
       THEN /\ complete_result' = CompleteResult("returned", NoError)
            /\ UNCHANGED <<last_error, sleeps>>
       ELSE IF validation_failure(kind)
            THEN \* _make_request raises LLMValidationError, no handler takes it
                 /\ complete_result' = CompleteResult("raised", "LLMValidationError")
                 /\ UNCHANGED <<last_error, sleeps>>
            ELSE /\ last_error' = kind
                 /\ IF retries(kind)
                    THEN /\ sleeps' = Append(sleeps, get_retry_delay(attempt))
                         /\ complete_result' =
                               IF attempt + 1 < max_retries
                               THEN complete_result
                               ELSE CompleteResult("raised", exhausted_error(kind))
                    ELSE /\ complete_result' = CompleteResult("raised", "LLMAPIError")
                         /\ UNCHANGED sleeps
    /\ UNCHANGED max_retries
    /\ UNCHANGED <<score_vars, band_vars, grade_vars, batch_vars, eval_vars,
                 critical_vars, validation_vars, usage_vars,
                 thread_vars, format_vars, short_vars>>

\* range(0): the loop body never runs and lines 207-213 raise at once.
NoAttempts ==
    /\ complete_result.status = "running"
    /\ max_retries = 0
    /\ complete_result' = CompleteResult("raised", exhausted_error(last_error))
    /\ UNCHANGED <<max_retries, attempt, last_error, responses, sleeps, token_usage>>
    /\ UNCHANGED <<score_vars, band_vars, grade_vars, batch_vars, eval_vars,
                 critical_vars, validation_vars, usage_vars,
                 thread_vars, format_vars, short_vars>>

NextClient ==
    \/ \E kind \in RequestOutcomes, has_usage \in BOOLEAN :
          /\ (has_usage => kind \in ResponseKinds)   \* only a response has usage
          /\ Attempt(kind, has_usage)
    \/ NoAttempts

SpecClient == InitClient /\ [][NextClient]_vars

(***************************************************************************)
(* LLMEvaluator.evaluate_ticket: one call.  Each step is one iteration of  *)
(* the loop over the evaluations of the template; the last one returns.    *)
(***************************************************************************)
InitEval ==
    /\ eval_template \in TemplateType
    /\ eval_index = 0
    /\ eval_results = <<>>
    /\ eval_outcomes = <<>>
    /\ eval_status = "running"
    /\ ScoreIdle
    /\ BandIdle
    /\ GradeIdle
    /\ BatchIdle
    /\ ClientIdle
    /\ CriticalIdle
    /\ ValidationIdle
    /\ UsageIdle
    /\ ThreadIdle
    /\ FormatIdle
    /\ ShortIdle

Evaluate(o) ==
    /\ eval_status = "running"
    /\ eval_index < Len(TEMPLATE_EVALUATIONS[eval_template])
    /\ LET eval_type == TEMPLATE_EVALUATIONS[eval_template][eval_index + 1]
           last == eval_index + 1 = Len(TEMPLATE_EVALUATIONS[eval_template])
       IN  IF o.kind \in {"valid", "partial"}
           THEN /\ eval_results' = Append(eval_results, to_rule_result(o, eval_type))
                /\ eval_status' = IF last THEN "returned" ELSE "running"
           ELSE IF except_Exception(outcome_exception(o))
                THEN /\ eval_results' = append_error_result(eval_results, eval_type)
                     /\ eval_status' = IF last THEN "returned" ELSE "running"
                ELSE /\ eval_status' = "raised"
                     /\ UNCHANGED eval_results
    /\ eval_outcomes' = Append(eval_outcomes, o)
    /\ eval_index' = eval_index + 1
    /\ UNCHANGED eval_template
    /\ UNCHANGED <<score_vars, band_vars, grade_vars, batch_vars, client_vars,
                 critical_vars, validation_vars, usage_vars,
                 thread_vars, format_vars, short_vars>>

NextEval == \E o \in JudgeOutcomes : Evaluate(o)

SpecEval == InitEval /\ [][NextEval]_vars

(***************************************************************************)
(* CriticalProcessDetector.evaluate on one ticket.                         *)
(***************************************************************************)
MaxPhrases == 2

BodyPhrases ==
    {"password reset requested", "manager informed", "temporary password issued",
     "change password after login", "vip user", "lost laptop",
     "escalated to security team", "virus found", "account locked", "data breach",
     "user called"}

CriticalTickets ==
    {CriticalTicket(short, desc, work, close, sub, prio) :
        short \in {"user issue", "password reset"},
        desc \in SubsetsUpTo(BodyPhrases, MaxPhrases),
        work \in {"", "manager informed", "escalated to security team"},
        close \in {"", "resolved and user confirmed working"},
        sub \in {"reset_restart", "password reset", "security"},
        prio \in {"2", "3"}}

InitCritical ==
    /\ cp_ticket \in CriticalTickets
    /\ detected = <<>>
    /\ cp_result = NoDetectorResult
    /\ ScoreIdle
    /\ BandIdle
    /\ GradeIdle
    /\ BatchIdle
    /\ ClientIdle
    /\ EvalIdle
    /\ ValidationIdle
    /\ UsageIdle
    /\ ThreadIdle
    /\ FormatIdle
    /\ ShortIdle

\* CriticalProcessDetector.evaluate(ticket): list(set(detected)) comes out in
\* some order of the set and the loop visits it in that order
CriticalEvaluate ==
    /\ cp_result = NoDetectorResult
    /\ \E order \in Orders(detect_critical_processes(cp_ticket)) :
          /\ detected' = order
          /\ cp_result' = critical_process_evaluate(cp_ticket, order)
    /\ UNCHANGED cp_ticket
    /\ UNCHANGED <<score_vars, band_vars, grade_vars, batch_vars, client_vars,
                   eval_vars, validation_vars, usage_vars,
                 thread_vars, format_vars, short_vars>>

NextCritical == CriticalEvaluate

SpecCritical == InitCritical /\ [][NextCritical]_vars

(***************************************************************************)
(* ValidationDetector.evaluate on one ticket.                              *)
(***************************************************************************)
MaxWorkPhrases == 1

ValidationPhrases ==
    {"okta push sent", "okta verified", "guest chat", "full name given",
     "employee id given", "office location given", "validated by name",
     "caller validated", "user called"}

ContactTypes ==
    {"phone", "Phone ", "chat", " CHAT", "email", "Email", "self-service",
     "Self-Service", "web", "system", "auto", "walk-in", ""}

ValidationTickets ==
    {ValidationTicket(contact, desc, work) :
        contact \in ContactTypes,
        desc \in SubsetsUpTo(ValidationPhrases, MaxPhrases),
        work \in SubsetsUpTo(ValidationPhrases, MaxWorkPhrases)}

InitValidation ==
    /\ val_ticket \in ValidationTickets
    /\ val_result = NoDetectorResult
    /\ ScoreIdle
    /\ BandIdle
    /\ GradeIdle
    /\ BatchIdle
    /\ ClientIdle
    /\ EvalIdle
    /\ CriticalIdle
    /\ UsageIdle
    /\ ThreadIdle
    /\ FormatIdle
    /\ ShortIdle

\* ValidationDetector.evaluate(ticket)
ValidationEvaluate ==
    /\ val_result = NoDetectorResult
    /\ val_result' = validation_evaluate(val_ticket)
    /\ UNCHANGED val_ticket
    /\ UNCHANGED <<score_vars, band_vars, grade_vars, batch_vars, client_vars,
                   eval_vars, critical_vars, usage_vars,
                 thread_vars, format_vars, short_vars>>

NextValidation == ValidationEvaluate

SpecValidation == InitValidation /\ [][NextValidation]_vars

(***************************************************************************)
(* The token usage of one OpenAIClient over its life: requests made        *)
(* through it, reset_usage called on it, and BatchLLMEvaluator batches     *)
(* started on it.                                                          *)
(***************************************************************************)
MaxCalls == 7

InitUsage ==
    /\ usage_op = "init"
    /\ usage_calls = 0
    /\ ScoreIdle
    /\ BandIdle
    /\ GradeIdle
    /\ BatchIdle
    /\ ClientIdle
    /\ EvalIdle
    /\ CriticalIdle
    /\ ValidationIdle
    /\ ThreadIdle
    /\ FormatIdle
    /\ ShortIdle

UsageFrame ==
    /\ UNCHANGED <<max_retries, attempt, last_error, responses, sleeps, complete_result>>
    /\ UNCHANGED <<score_vars, band_vars, grade_vars, batch_vars, eval_vars,
                   critical_vars, validation_vars,
                 thread_vars, format_vars, short_vars>>

\* OpenAIClient._make_request: a response that reports usage is added
MakeRequest(has_usage, usage) ==
    /\ usage_calls < MaxCalls
    /\ token_usage' = IF has_usage THEN TokenUsage_add(token_usage, usage)
                      ELSE token_usage
    /\ usage_op' = "request"
    /\ usage_calls' = usage_calls + 1
    /\ UsageFrame

\* OpenAIClient.reset_usage(), called by the user of the client
ResetUsage ==
    /\ usage_calls < MaxCalls
    /\ token_usage' = reset_usage
    /\ usage_op' = "reset_usage"
    /\ usage_calls' = usage_calls + 1
    /\ UsageFrame

\* BatchLLMEvaluator.evaluate_batch / evaluate_batch_async, up to the loop:
\* both start with self.client.reset_usage()
LLMEvaluateBatch(batch_mode) ==
    /\ usage_calls < MaxCalls
    /\ token_usage' = reset_usage
    /\ usage_op' = batch_mode
    /\ usage_calls' = usage_calls + 1
    /\ UsageFrame

NextUsage ==
    \/ \E has_usage \in BOOLEAN, usage \in ResponseUsages : MakeRequest(has_usage, usage)
    \/ ResetUsage
    \/ \E batch_mode \in {"evaluate_batch", "evaluate_batch_async"} :
          LLMEvaluateBatch(batch_mode)

SpecUsage == InitUsage /\ [][NextUsage]_vars

(***************************************************************************)
(* BatchLLMEvaluator.evaluate_batch_async: the evaluations run on the      *)
(* threads of the default executor, and LLMEvaluator(client) makes every   *)
(* request through the one OpenAIClient.  _make_request calls              *)
(* self.token_usage.add on the worker's own thread, with no lock; each     *)
(* "self.x += v" of add reads the attribute, evaluates v and writes the    *)
(* attribute back, and another thread may run between the read and the     *)
(* write.                                                                  *)
(***************************************************************************)
MaxRequests == 2

\* The attributes TokenUsage.add updates, in the order of its statements.
TokenUsageFields ==
    <<"prompt_tokens", "completion_tokens", "total_tokens", "request_count">>

\* What add puts on top of the attribute it read.
add_increment(usage, field) ==
    IF field = "request_count" THEN 1 ELSE usage[field]

Worker(pc, field, tmp, left, usage) ==
    [pc |-> pc, field |-> field, tmp |-> tmp, left |-> left, usage |-> usage]

InitThreads ==
    /\ \E n \in 1..MaxConcurrency :
          \E requests \in [1..n -> 1..MaxRequests] :
              workers = [t \in 1..n |->
                            Worker("request", 1, 0, requests[t], ResponseUsage)]
    /\ reported = TokenUsage(0, 0, 0, 0)
    /\ token_usage = reset_usage
    /\ max_retries = 0
    /\ attempt = 0
    /\ last_error = NoError
    /\ responses = <<>>
    /\ sleeps = <<>>
    /\ complete_result = CompleteResult("running", NoError)
    /\ ScoreIdle
    /\ BandIdle
    /\ GradeIdle
    /\ BatchIdle
    /\ EvalIdle
    /\ CriticalIdle
    /\ ValidationIdle
    /\ UsageIdle
    /\ FormatIdle
    /\ ShortIdle

ThreadFrame ==
    /\ UNCHANGED <<max_retries, attempt, last_error, responses, sleeps,
                   complete_result>>
    /\ UNCHANGED <<score_vars, band_vars, grade_vars, batch_vars, eval_vars,
                   critical_vars, validation_vars, usage_vars, format_vars,
                   short_vars>>

\* _make_request on thread t, to the call of add: the response is there, and
\* "if response.usage" decides whether add runs.
WorkerRequest(t, has_usage, usage) ==
    /\ workers[t].pc = "request"
    /\ workers[t].left > 0
    /\ IF has_usage
       THEN /\ workers' = [workers EXCEPT ![t] =
                              Worker("load", 1, 0, workers[t].left - 1, usage)]
            /\ reported' = TokenUsage_add(reported, usage)
       ELSE /\ workers' = [workers EXCEPT ![t].left = @ - 1]
            /\ UNCHANGED reported
    /\ UNCHANGED token_usage
    /\ ThreadFrame

\* The read of "self.x += v" on thread t.
WorkerLoad(t) ==
    /\ workers[t].pc = "load"
    /\ workers' = [workers EXCEPT
                      ![t].pc = "store",
                      ![t].tmp = token_usage[TokenUsageFields[workers[t].field]]]
    /\ UNCHANGED <<token_usage, reported>>
    /\ ThreadFrame

\* The write of "self.x += v" on thread t; after the last statement of add
\* the thread is back in the evaluator.
WorkerStore(t) ==
    /\ workers[t].pc = "store"
    /\ LET field == TokenUsageFields[workers[t].field]
       IN  token_usage' = [token_usage EXCEPT
                              ![field] = workers[t].tmp
                                           + add_increment(workers[t].usage, field)]
    /\ workers' = IF workers[t].field < Len(TokenUsageFields)
                  THEN [workers EXCEPT ![t].pc = "load", ![t].field = @ + 1]
                  ELSE [workers EXCEPT ![t].pc = "request", ![t].field = 1]
    /\ UNCHANGED reported
    /\ ThreadFrame

NextThreads ==
    \/ \E t \in DOMAIN workers, has_usage \in BOOLEAN, usage \in ResponseUsages :
          /\ (~has_usage => usage = ResponseUsage)
          /\ WorkerRequest(t, has_usage, usage)
    \/ \E t \in DOMAIN workers : WorkerLoad(t)
    \/ \E t \in DOMAIN workers : WorkerStore(t)

SpecThreads == InitThreads /\ [][NextThreads]_vars

(***************************************************************************)
(* tqrs/llm/batch.py: BatchLLMEvaluator.evaluate_batch and                 *)
(* evaluate_batch_async.  Every ticket gives a TicketEvaluationResult,     *)
(* the failed ones too.  In the async method each evaluate_one task        *)
(* returns its result, and asyncio.gather keeps the result of the i-th     *)
(* awaitable at place i of the list it returns.  The progress callback     *)
(* only observes.                                                          *)
(***************************************************************************)
\* What self.evaluator.evaluate_ticket(ticket) does: returns the results,
\* raises an LLMError, or raises another exception.
LLMTicketKinds == {"good", "LLMAPIError", "ValueError"}

evaluate_ticket_raises(kind) == kind # "good"

TicketEvaluationResult(ticket, success) ==
    [ticket_number |-> ticket.number, success |-> success]

\* The place of a task that has not returned yet.
PendingResult == [ticket_number |-> NoTicket, success |-> FALSE]

\* What evaluate_one returns, and what the loop of evaluate_batch appends.
ticket_evaluation_result(ticket) ==
    IF ~evaluate_ticket_raises(ticket.kind)
    THEN TicketEvaluationResult(ticket, TRUE)
    ELSE IF except_LLMError(ticket.kind)
         THEN TicketEvaluationResult(ticket, FALSE)
         ELSE TicketEvaluationResult(ticket, FALSE)

LLMBatchProgress(total) ==
    [total |-> total, completed |-> 0, failed |-> 0, current_ticket |-> NoTicket]

\* progress.completed += 1 on a success, progress.failed += 1 in both
\* except clauses
count_outcome(p, raised) ==
    IF raised THEN [p EXCEPT !.failed = @ + 1]
    ELSE [p EXCEPT !.completed = @ + 1]

\* The results in the order the tasks finish.
gather_collect_as_completed(res, i, result) ==
    LET first == CHOOSE k \in DOMAIN res :
                    /\ res[k] = PendingResult
                    /\ \A j \in 1..(k - 1) : res[j] # PendingResult
    IN  [res EXCEPT ![first] = result]

\* asyncio.gather: the result of the i-th awaitable is the i-th of the list
gather_collect(res, i, result) == [res EXCEPT ![i] = result]

LLMBatchResult(st, res, total, successful, failed) ==
    [status |-> st, results |-> res, total_tickets |-> total,
     successful |-> successful, failed |-> failed]

InitLLMBatch ==
    /\ \E n \in 0..MaxTickets :
          \E kinds \in [1..n -> LLMTicketKinds] :
              tickets = [i \in 1..n |-> Ticket(i, kinds[i])]
    /\ mode \in {"sequential", "async"}
    /\ concurrency \in 1..MaxConcurrency
    /\ results = IF mode = "sequential" THEN <<>>
                 ELSE [i \in 1..Len(tickets) |-> PendingResult]
    /\ errors = <<>>
    /\ progress = LLMBatchProgress(Len(tickets))
    /\ index = 0
    /\ task_pc = [i \in 1..Len(tickets) |-> "waiting"]
    /\ semaphore = concurrency
    /\ callbacks = <<>>
    /\ batch_result = LLMBatchResult("running", <<>>, 0, 0, 0)
    /\ ScoreIdle
    /\ BandIdle
    /\ GradeIdle
    /\ ClientIdle
    /\ EvalIdle
    /\ CriticalIdle
    /\ ValidationIdle
    /\ UsageIdle
    /\ ThreadIdle
    /\ FormatIdle
    /\ ShortIdle

LLMBatchFrame ==
    UNCHANGED <<score_vars, band_vars, grade_vars, client_vars, eval_vars,
                critical_vars, validation_vars, usage_vars, thread_vars,
                format_vars, short_vars>>

\* One iteration of the for loop of evaluate_batch (lines 111-143).
LLMSeqIteration ==
    /\ mode = "sequential"
    /\ batch_result.status = "running"
    /\ index < Len(tickets)
    /\ LET ticket == tickets[index + 1]
           started == [progress EXCEPT !.current_ticket = ticket.number]
       IN  /\ callbacks' = Append(callbacks, started)
           /\ results' = append_result(results, ticket_evaluation_result(ticket))
           /\ progress' = count_outcome(started, evaluate_ticket_raises(ticket.kind))
    /\ index' = index + 1
    /\ UNCHANGED <<tickets, mode, concurrency, errors, task_pc, semaphore,
                   batch_result>>
    /\ LLMBatchFrame

\* The final progress update and the return (lines 145-156).
LLMSeqReturn ==
    /\ mode = "sequential"
    /\ batch_result.status = "running"
    /\ index = Len(tickets)
    /\ callbacks' = Append(callbacks, progress)
    /\ batch_result' = LLMBatchResult("returned", results, Len(tickets),
                                      progress.completed, progress.failed)
    /\ UNCHANGED <<tickets, mode, concurrency, results, errors, progress,
                   index, task_pc, semaphore>>
    /\ LLMBatchFrame

\* evaluate_one enters "async with semaphore" and hands the evaluation to
\* the executor (lines 183-192).
LLMTaskAcquire(i) ==
    /\ mode = "async"
    /\ batch_result.status = "running"
    /\ task_pc[i] = "waiting"
    /\ semaphore > 0
    /\ \A j \in 1..(i - 1) : task_pc[j] # "waiting"
    /\ semaphore' = semaphore_acquire(semaphore)
    /\ task_pc' = [task_pc EXCEPT ![i] = "running"]
    /\ UNCHANGED <<tickets, mode, concurrency, results, errors, progress,
                   index, callbacks, batch_result>>
    /\ LLMBatchFrame

\* The executor is done with ticket i: the rest of evaluate_one (lines
\* 194-233), the release of the semaphore, and gather taking the result.
LLMTaskComplete(i) ==
    /\ mode = "async"
    /\ batch_result.status = "running"
    /\ task_pc[i] = "running"
    /\ LET ticket == tickets[i]
           raised == evaluate_ticket_raises(ticket.kind)
           counted == count_outcome(progress, raised)
       IN  /\ progress' = IF raised THEN counted
                          ELSE [counted EXCEPT !.current_ticket = ticket.number]
           /\ callbacks' = Append(callbacks, progress')
           /\ results' = gather_collect(results, i, ticket_evaluation_result(ticket))
           /\ semaphore' = semaphore_release(semaphore, FALSE)
    /\ task_pc' = [task_pc EXCEPT ![i] = "done"]
    /\ UNCHANGED <<tickets, mode, concurrency, errors, index, batch_result>>
    /\ LLMBatchFrame

\* gather is done; the BatchResult is built (lines 236-246).
LLMAsyncReturn ==
    /\ mode = "async"
    /\ batch_result.status = "running"
    /\ \A i \in 1..Len(tickets) : task_pc[i] = "done"
    /\ batch_result' = LLMBatchResult("returned", results, Len(tickets),
                                      progress.completed, progress.failed)
    /\ UNCHANGED <<tickets, mode, concurrency, results, errors, progress,
                   index, task_pc, semaphore, callbacks>>
    /\ LLMBatchFrame

NextLLMBatch ==
    \/ LLMSeqIteration
    \/ LLMSeqReturn
    \/ \E i \in 1..Len(tickets) : LLMTaskAcquire(i)
    \/ \E i \in 1..Len(tickets) : LLMTaskComplete(i)
    \/ LLMAsyncReturn

SpecLLMBatch == InitLLMBatch /\ [][NextLLMBatch]_vars

(***************************************************************************)
(* The lists of results handed to the formatter: one result per criterion, *)
(* as the evaluators give them, in any order.                              *)
(***************************************************************************)
MaxFormatResults == 6

FormatPool == {
    RuleResult("critical_process_followed", StrScore("PASS")),
    RuleResult("validation_performed", StrScore("-15")),
    RuleResult("short_description_format", IntScore(8)),
    RuleResult("correct_category", IntScore(10)),
    RuleResult("correct_subcategory", IntScore(6)),
    RuleResult("correct_service", IntScore(9)),
    RuleResult("accurate_description", IntScore(20)),
    RuleResult("spelling_grammar", IntScore(2)) }

one_per_criterion(rs) ==
    \A i, j \in DOMAIN rs : rs[i].criterion_id = rs[j].criterion_id => i = j

InitFormat ==
    /\ fmt_template \in {INCIDENT_LOGGING, INCIDENT_HANDLING}
    /\ fmt_results \in {rs \in BoundedSeq(FormatPool, MaxFormatResults) :
                           one_per_criterion(rs)}
    /\ strengths = NotCollected
    /\ improvements = NotCollected
    /\ ScoreIdle
    /\ BandIdle
    /\ GradeIdle
    /\ BatchIdle
    /\ ClientIdle
    /\ EvalIdle
    /\ CriticalIdle
    /\ ValidationIdle
    /\ UsageIdle
    /\ ThreadIdle
    /\ ShortIdle

FormatFrame ==
    UNCHANGED <<score_vars, band_vars, grade_vars, batch_vars, client_vars,
                eval_vars, critical_vars, validation_vars, usage_vars,
                thread_vars, short_vars>>

\* strengths = self.formatter.collect_strengths(all_results, template)
CollectStrengths ==
    /\ ~strengths.returned
    /\ strengths' = Collected(collect_strengths(fmt_results, fmt_template))
    /\ UNCHANGED <<fmt_template, fmt_results, improvements>>
    /\ FormatFrame

\* improvements = self.formatter.collect_improvements(all_results, template)
CollectImprovements ==
    /\ strengths.returned
    /\ ~improvements.returned
    /\ improvements' = Collected(collect_improvements(fmt_results, fmt_template))
    /\ UNCHANGED <<fmt_template, fmt_results, strengths>>
    /\ FormatFrame

NextFormat ==
    \/ CollectStrengths
    \/ CollectImprovements

SpecFormat == InitFormat /\ [][NextFormat]_vars

(***************************************************************************)
(* ShortDescriptionValidator.validate on one ticket.  With " - " between   *)
(* the segments the first and the last segment are not empty: strip()      *)
(* would take the blank of the separator next to them.                     *)
(***************************************************************************)
MaxSegments == 5

ShortDescriptions ==
    {ShortDescription("none", <<w>>) : w \in Words}
    \cup {ShortDescription("-", segs) :
             segs \in UNION {[1..n -> Words] : n \in 2..MaxSegments}}
    \cup {ShortDescription(" - ", segs) :
             segs \in {s \in UNION {[1..n -> Words] : n \in 2..MaxSegments} :
                          s[1] # "" /\ s[Len(s)] # ""}}

InitShort ==
    /\ short_description \in ShortDescriptions
    /\ ticket_lob \in {"", "Marsh"}
    /\ sd_result = NoShortResult
    /\ ScoreIdle
    /\ BandIdle
    /\ GradeIdle
    /\ BatchIdle
    /\ ClientIdle
    /\ EvalIdle
    /\ CriticalIdle
    /\ ValidationIdle
    /\ UsageIdle
    /\ ThreadIdle
    /\ FormatIdle

\* self.short_desc_validator.validate(ticket)
ShortValidate ==
    /\ ~sd_result.returned
    /\ sd_result' = validate(short_description, ticket_lob)
    /\ UNCHANGED <<short_description, ticket_lob>>
    /\ UNCHANGED <<score_vars, band_vars, grade_vars, batch_vars, client_vars,
                   eval_vars, critical_vars, validation_vars, usage_vars,
                   thread_vars, format_vars>>

NextShort == ShortValidate

SpecShort == InitShort /\ [][NextShort]_vars

(***************************************************************************)
(* evaluate_batch_async when every evaluation handed to the executor ends  *)
(* and the event loop runs every task that is ready: a task that can enter *)
(* the semaphore enters it, an evaluation that was started completes, and  *)
(* gather returns once every task is done.                                 *)
(***************************************************************************)
InitBatchAsync ==
    /\ InitBatch
    /\ mode = "async"

NextBatchAsync ==
    \/ \E i \in 1..Len(tickets) : TaskAcquire(i)
    \/ \E i \in 1..Len(tickets) : TaskComplete(i)
    \/ AsyncReturn

SpecBatchFair ==
    /\ InitBatchAsync
    /\ [][NextBatchAsync]_vars
    /\ WF_vars(\E i \in 1..Len(tickets) : TaskAcquire(i))
    /\ WF_vars(\E i \in 1..Len(tickets) : TaskComplete(i))
    /\ WF_vars(AsyncReturn)

(***************************************************************************)
(* Properties of calculate_score (SpecScore).                              *)
(***************************************************************************)
all_results == rule_results \o llm_results

HasFail == \E i \in 1..Len(all_results) : is_auto_fail(all_results[i])

\* C1: whenever at least one of the results passed to calculate_score is
\* Fail, the returned result has final_score 0, band Purple, passed false and
\* auto_fail true with a reason, whatever the other results score.
C1_AutoFailForcesZero ==
    (scoring_result.returned /\ HasFail) =>
        /\ scoring_result.final_score = 0
        /\ scoring_result.band = PURPLE
        /\ scoring_result.passed = FALSE
        /\ scoring_result.auto_fail = TRUE
        /\ scoring_result.auto_fail_reason.set

\* A Fail that is not the first result, next to a judge result worth 20.
C1_Witness ==
    /\ scoring_result.returned
    /\ Len(all_results) >= 2
    /\ ~is_auto_fail(all_results[1])
    /\ HasFail
    /\ \E i \in 1..Len(all_results) :
          ~all_results[i].score.isstr /\ all_results[i].score.n = 20
    /\ scoring_result.final_score = 0
    /\ scoring_result.auto_fail

\* C2: the returned final_score is max(0, base_score + validation_deduction
\* + critical_process_deduction) of the same returned result, and it is
\* never negative.
C2_FinalScoreFormula ==
    scoring_result.returned =>
        LET total == scoring_result.base_score
                     + scoring_result.validation_deduction
                     + scoring_result.critical_process_deduction
        IN  /\ scoring_result.final_score = (IF total < 0 THEN 0 ELSE total)
            /\ scoring_result.final_score >= 0

\* Base 20 with both deductions: 20 - 15 - 35 = -30 is reported as 0.
C2_Witness ==
    /\ scoring_result.returned
    /\ scoring_result.base_score = 20
    /\ scoring_result.validation_deduction = -15
    /\ scoring_result.critical_process_deduction = -35
    /\ scoring_result.final_score = 0

\* C10: the returned base_score and final_score never exceed the template's
\* max score.
C10_ScoreWithinMax ==
    scoring_result.returned =>
        /\ scoring_result.base_score <= scoring_result.max_score
        /\ scoring_result.final_score <= scoring_result.max_score

(***************************************************************************)
(* Properties of from_percentage (SpecBand).                               *)
(***************************************************************************)
tenths == percentage.num

\* C8: from_percentage is total and its boundaries are exact: Blue iff
\* p >= 95, Green iff 90 <= p < 95, Yellow iff 75 <= p < 90, Red iff
\* 50 <= p < 75, Purple iff p < 50.
C8_BandBoundaries ==
    (band # "none" /\ percentage.den = 10) =>
        /\ band \in {BLUE, GREEN, YELLOW, RED, PURPLE}
        /\ (band = BLUE) <=> (tenths >= 950)
        /\ (band = GREEN) <=> (tenths >= 900 /\ tenths < 950)
        /\ (band = YELLOW) <=> (tenths >= 750 /\ tenths < 900)
        /\ (band = RED) <=> (tenths >= 500 /\ tenths < 750)
        /\ (band = PURPLE) <=> (tenths < 500)

\* 90.0 has been classified, as Green.
C8_Witness == percentage = Rat(900, 10) /\ band = GREEN

(***************************************************************************)
(* Properties of the pass flag and band of a final score (SpecGrade).      *)
(***************************************************************************)
\* The band the fixed thresholds give for a percentage of t tenths.
BandOfTenths(t) ==
    IF t >= 950 THEN BLUE
    ELSE IF t >= 900 THEN GREEN
    ELSE IF t >= 750 THEN YELLOW
    ELSE IF t >= 500 THEN RED
    ELSE PURPLE

\* C9: for every template and every final score s in 0..max, passed holds
\* exactly when round(s / max * 100, 1) >= 90.0, the band is the one of the
\* thresholds for that rounded percentage, and calculate_score returns the
\* same passed flag and band as EvaluationResult derives.
C9_PassedAndBandOfRoundedPercentage ==
    grade.graded =>
        LET r == grade.percentage.num
        IN  /\ grade.percentage.den = 10
            \* r / 10 is s / max * 100 rounded to one decimal
            /\ 2 * (1000 * total_score - r * max_score) <= max_score
            /\ 2 * (r * max_score - 1000 * total_score) <= max_score
            /\ grade.passed <=> (r >= 900)
            /\ grade.band = BandOfTenths(r)
            /\ grade.calc_passed = grade.passed
            /\ grade.calc_band = grade.band

\* 63 of 70 is exactly 90.0: passed, Green, by both computations.
C9_Witness ==
    /\ grade.graded
    /\ total_score = 63
    /\ max_score = 70
    /\ grade.passed
    /\ grade.calc_passed
    /\ grade.band = GREEN

(***************************************************************************)
(* Properties of the batch orchestrator (SpecBatch).                       *)
(***************************************************************************)
Returned == batch_result.status = "returned"

Raises(i) == TicketOutcome(tickets[i].kind).raises

InResults(i) ==
    Cardinality({j \in 1..Len(batch_result.results) :
                    batch_result.results[j].ticket_number = tickets[i].number})

InErrors(i) ==
    Cardinality({j \in 1..Len(batch_result.errors) :
                    batch_result.errors[j][1] = tickets[i].number})

\* evaluate_batch keeps the input order (the loop appends as it goes).
SequentialResultsInOrder ==
    (mode = "sequential" /\ Returned) =>
        batch_result.results = sequential_results(tickets)

\* C3: when evaluate_batch or evaluate_batch_async returns,
\* len(results) + len(errors) is the number of input tickets, every ticket
\* is in exactly one of the two collections exactly once, and the summary
\* has total_tickets = len(results).
C3_BatchPartition ==
    Returned =>
        /\ Len(batch_result.results) + Len(batch_result.errors) = Len(tickets)
        /\ \A i \in 1..Len(tickets) : InResults(i) + InErrors(i) = 1
        /\ batch_result.summary.total_tickets = Len(batch_result.results)

\* A concurrent batch of three tickets returned with two failures and one
\* result.
C3_Witness ==
    /\ Returned
    /\ mode = "async"
    /\ Len(tickets) = 3
    /\ Len(batch_result.errors) = 2
    /\ Len(batch_result.results) = 1

\* C4: in both modes a ticket whose evaluation raises is recorded in errors
\* as (ticket number, message), every other ticket is still evaluated, and
\* the batch call returns a BatchResult instead of raising, whichever and
\* however many tickets fail.
C4_ErrorsIsolated ==
    /\ batch_result.status # "raised"
    /\ Returned =>
          \A i \in 1..Len(tickets) :
              IF Raises(i)
              THEN /\ \E j \in 1..Len(batch_result.errors) :
                         batch_result.errors[j] =
                             <<tickets[i].number, TicketOutcome(tickets[i].kind).message>>
                   /\ InResults(i) = 0
              ELSE /\ \E j \in 1..Len(batch_result.results) :
                         batch_result.results[j] = EvaluationResult(tickets[i])
                   /\ InErrors(i) = 0

\* A sequential batch whose first ticket raised ValueError returned with the
\* later tickets evaluated.
C4_Witness ==
    /\ Returned
    /\ mode = "sequential"
    /\ Len(tickets) = 3
    /\ tickets[1].kind = "value_error"
    /\ ~Raises(2)
    /\ tickets[3].kind = "api_error"
    /\ InResults(2) = 1
    /\ batch_result.errors = << <<1, "bad value">>, <<3, "API Error">> >>

\* C5: the summary of evaluate_batch_async equals, in every aggregate
\* statistic, the summary evaluate_batch yields for the same tickets,
\* whatever order the concurrent tickets complete in.
C5_SummaryAsSequential ==
    (mode = "async" /\ Returned) =>
        batch_result.summary = generate_summary(sequential_results(tickets))

(***************************************************************************)
(* Properties of OpenAIClient.complete (SpecClient).                       *)
(***************************************************************************)
RetryableErrors == {"RateLimitError", "APIConnectionError", "APIError5xx",
                    "TimeoutError"}

AllRetryable == \A i \in 1..Len(responses) : responses[i].kind \in RetryableErrors

Failed(o) == o.kind \notin {"valid", "partial"}

\* C7: evaluate_ticket returns exactly one result for each evaluation
\* configured for the template, in the configured order, whatever subset of
\* the judge calls fail: a failed evaluation is replaced by a result with
\* score 0, passed false and coaching asking for manual review, the
\* evaluations after a failed one still run, and no exception leaves
\* evaluate_ticket.
C7_OneResultPerEvaluation ==
    LET evaluations == TEMPLATE_EVALUATIONS[eval_template]
    IN  /\ eval_status # "raised"
        /\ Len(eval_results) = Len(eval_outcomes)
        /\ Len(eval_results) <= Len(evaluations)
        /\ (eval_status = "returned") <=> (Len(eval_results) = Len(evaluations))
        /\ \A i \in 1..Len(eval_results) :
              /\ eval_results[i].criterion_id = prompt_criterion(evaluations[i])[1]
              /\ Failed(eval_outcomes[i]) =>
                    /\ eval_results[i].score = 0
                    /\ eval_results[i].passed = FALSE
                    /\ eval_results[i].coaching = MANUAL_REVIEW
              /\ ~Failed(eval_outcomes[i]) =>
                    eval_results[i].score = response_score(eval_outcomes[i], evaluations[i])

\* The first judge call of an incident-handling ticket failed, the response
\* of the third did not validate, the other two evaluations ran and scored.
C7_Witness ==
    /\ eval_status = "returned"
    /\ eval_template = INCIDENT_HANDLING
    /\ eval_outcomes[1].kind = "LLMAPIError"
    /\ eval_outcomes[2] = [kind |-> "valid", score |-> "full"]
    /\ eval_outcomes[3].kind = "invalid"
    /\ eval_outcomes[4].kind = "valid"
    /\ Len(eval_results) = 4
    /\ eval_results[1].score = 0
    /\ eval_results[2].score = 20

(***************************************************************************)
(* CriticalProcessDetector                                                 *)
(***************************************************************************)
CriticalReturned == cp_result # NoDetectorResult

Detected(p) == \E i \in DOMAIN detected : detected[i] = p

Outcome(p) == verify_process_compliance(cp_ticket, p)

\* C11: when several process types are detected and the password-reset check
\* yields Fail, the detector's result is that Fail with its reason, whatever
\* the other outcomes and the order of the visit; when no process yields Fail
\* the result is Deduction(-35) if some detected process is non-compliant and
\* Pass otherwise.
C11_PasswordFailWins ==
    (CriticalReturned /\ Len(detected) >= 2) =>
        /\ (Detected("password_reset") /\ Outcome("password_reset").score = "FAIL")
              => cp_result = Outcome("password_reset")
        /\ (\A i \in DOMAIN detected : Outcome(detected[i]).score # "FAIL")
              => cp_result.score =
                    IF \E i \in DOMAIN detected : ~Outcome(detected[i]).passed
                    THEN "-35" ELSE "PASS"

HasEvidence(element) ==
    search_any(PASSWORD_COMPLIANCE(element), notes_text(cp_ticket))

ValidationReturned == val_result # NoDetectorResult

Channel == lower_strip(val_ticket.contact_type)

\* a strong-authentication marker in the description
StrongMarker == OKTA_PATTERNS \cap val_ticket.description # {}

GuestMarker == GUEST_CHAT_PATTERNS \cap val_ticket.description # {}

\* the identity elements a text evidences
ElementsIn(text) ==
    {e \in VALIDATION_ELEMENT_NAMES : VALIDATION_ELEMENTS(e) \cap text # {}}

MentionIn(text) == validation_keywords \cap text # {}

PhoneText == val_ticket.description \cup val_ticket.work_notes

ChatOneElement ==
    /\ ValidationReturned
    /\ Channel = "chat"
    /\ ~StrongMarker
    /\ ~GuestMarker
    /\ Cardinality(ElementsIn(val_ticket.description)) = 1

\* C14 as stated: a chat ticket whose text evidences exactly one identity
\* element, with no strong-authentication or guest-chat marker, yields Pass.
C14_ChatOneElementPass == ChatOneElement => val_result.score = "PASS"

\* C14 as amended: a chat ticket whose text evidences exactly one identity
\* element, with no strong-authentication or guest-chat marker, yields
\* Deduction(-15); chat needs two elements to pass, as phone does.
C14_ChatOneElementDeduction ==
    ChatOneElement => val_result.score = "-15" /\ ~val_result.passed

C14_Witness ==
    /\ ChatOneElement
    /\ ElementsIn(val_ticket.description) = {"location"}
    /\ val_result.score = "-15"

\* C15: on the email, self-service and system-generated channels the outcome
\* is NotApplicable when no strong-authentication marker is present and Pass
\* when one is present, whatever the other evidence, and never Fail or a
\* deduction.
C15_NoValidationChannels ==
    (ValidationReturned /\ Channel \in NO_VALIDATION_REQUIRED \cup {"email"}) =>
        /\ val_result.score = IF StrongMarker THEN "PASS" ELSE "N/A"
        /\ val_result.passed

UnknownChannel == Channel \notin NO_VALIDATION_REQUIRED \cup {"phone", "chat", "email"}

\* C16: only a phone ticket can yield Fail; a chat ticket yields Pass or
\* Deduction(-15); an unknown or missing contact channel yields Pass or
\* NotApplicable, never Fail and never a deduction.
C16_FailOnlyOnPhone ==
    ValidationReturned =>
        /\ val_result.score = "FAIL" => Channel = "phone"
        /\ Channel = "chat" => val_result.score \in {"PASS", "-15"}
        /\ UnknownChannel => val_result.score \in {"PASS", "N/A"} /\ val_result.passed

\* a chat ticket with no validation evidence at all: Deduction(-15), not Fail
C16_Witness ==
    /\ ValidationReturned
    /\ Channel = "chat"
    /\ ElementsIn(PhoneText) = {}
    /\ ~MentionIn(PhoneText)
    /\ ~StrongMarker
    /\ ~GuestMarker
    /\ val_result.score = "-15"

(***************************************************************************)
(* Token usage                                                             *)
(***************************************************************************)
NotLowered ==
    /\ token_usage'.prompt_tokens >= token_usage.prompt_tokens
    /\ token_usage'.completion_tokens >= token_usage.completion_tokens
    /\ token_usage'.total_tokens >= token_usage.total_tokens
    /\ token_usage'.request_count >= token_usage.request_count

AddedOnce ==
    \/ token_usage' = token_usage
    \/ \E usage \in ResponseUsages :
          /\ token_usage'.prompt_tokens = token_usage.prompt_tokens + usage.prompt_tokens
          /\ token_usage'.completion_tokens =
                token_usage.completion_tokens + usage.completion_tokens
          /\ token_usage'.total_tokens = token_usage.total_tokens + usage.total_tokens
          /\ token_usage'.request_count = token_usage.request_count + 1

\* C17: the usage counters are cumulative: a response that reports usage adds
\* its figures once, no counter decreases, and only an explicit reset_usage by
\* the caller brings them back to zero; no operation of the client, the
\* evaluator or the batch evaluators resets or lowers them.
C17_UsageResetOnlyOnRequest ==
    [][/\ usage_op' = "request" => AddedOnce
       /\ usage_op' # "reset_usage" => NotLowered]_vars

(***************************************************************************)
(* OpenAIClient.complete: errors that are not retried                      *)
(***************************************************************************)
\* C20: an API error with a status below 500 on any attempt ends complete
\* with LLMAPIError at once: it is the last request made, whatever attempts
\* remain, and no delay is slept for it.
C20_NonRetryableSurfacesAtOnce ==
    \A i \in DOMAIN responses :
        responses[i].kind = "APIError4xx" =>
            /\ i = Len(responses)
            /\ complete_result = CompleteResult("raised", "LLMAPIError")
            /\ Len(sleeps) = i - 1

\* a 4xx on the second of three attempts, after one rate limit
C20_Witness ==
    /\ max_retries = 3
    /\ Len(responses) = 2
    /\ responses[1].kind = "RateLimitError"
    /\ responses[2].kind = "APIError4xx"
    /\ sleeps = <<1>>
    /\ complete_result = CompleteResult("raised", "LLMAPIError")

(***************************************************************************)
(* Batch orchestrator: order and slots                                     *)
(***************************************************************************)
Increasing(numbers) ==
    \A j, k \in DOMAIN numbers : j < k => numbers[j] < numbers[k]

\* C18: sequential evaluate_batch evaluates the tickets one at a time in
\* input order, ticket k starting only when the k-1 tickets before it are
\* finished, and results and errors each list their tickets in the relative
\* order of the input.
C18_SequentialOrder ==
    mode = "sequential" =>
        /\ Len(results) + Len(errors) = index
        /\ \A i \in 1..Len(tickets) :
              (i <= index) <=>
                 \/ \E j \in DOMAIN results : results[j].ticket_number = tickets[i].number
                 \/ \E j \in DOMAIN errors : errors[j][1] = tickets[i].number
        /\ Increasing([j \in DOMAIN results |-> results[j].ticket_number])
        /\ Increasing([j \in DOMAIN errors |-> errors[j][1]])
        /\ \A k \in 1..index :
              /\ callbacks[k].current_ticket = tickets[k].number
              /\ callbacks[k].completed = k - 1
              /\ callbacks[k].results + callbacks[k].error_list = k - 1

\* three tickets, the second failing: results holds tickets 1 and 3 in order
C18_Witness ==
    /\ mode = "sequential"
    /\ Returned
    /\ Len(tickets) = 3
    /\ Len(batch_result.results) = 2
    /\ batch_result.results[1].ticket_number = 1
    /\ batch_result.results[2].ticket_number = 3
    /\ batch_result.errors = << <<2, "API Error">> >>

RunningTasks == {i \in DOMAIN task_pc : task_pc[i] = "running"}

\* C19: in evaluate_batch_async with concurrency C >= 1 at most C tickets are
\* being evaluated at any moment, and a slot is given back when an evaluation
\* succeeds and when it fails alike: the free slots and the running
\* evaluations always add up to C.
C19_SlotsBoundedAndReleased ==
    mode = "async" =>
        /\ Cardinality(RunningTasks) <= concurrency
        /\ semaphore >= 0
        /\ semaphore + Cardinality(RunningTasks) = concurrency

\* concurrency 2: ticket 1 has failed, and tickets 2 and 3 hold both slots
C19_Witness ==
    /\ mode = "async"
    /\ concurrency = 2
    /\ Len(tickets) = 3
    /\ task_pc = <<"done", "running", "running">>
    /\ Len(errors) = 1
    /\ errors[1][1] = 1
    /\ semaphore = 0

(***************************************************************************)
(* Batch orchestrator: progress                                            *)
(***************************************************************************)
\* C22: in evaluate_batch_async each completion updates the results or the
\* errors, the error count and the completed counter in one step: at every
\* progress callback and in every state reached, completed = len(results) +
\* len(errors) and errors = len(errors), whatever the interleaving.
C22_ProgressMatchesCollections ==
    mode = "async" =>
        /\ progress.completed = Len(results) + Len(errors)
        /\ progress.errors = Len(errors)
        /\ \A k \in DOMAIN callbacks :
              /\ callbacks[k].completed = callbacks[k].results + callbacks[k].error_list
              /\ callbacks[k].errors = callbacks[k].error_list

\* two completions seen by the callback, one of them an error, a third
\* evaluation still running
C22_Witness ==
    /\ mode = "async"
    /\ Len(callbacks) = 2
    /\ callbacks[2].completed = 2
    /\ callbacks[2].errors = 1
    /\ callbacks[2].results = 1
    /\ \E i \in DOMAIN task_pc : task_pc[i] = "running"

\* C23: for every ticket list and every concurrency C >= 1, when each
\* evaluation ends, evaluate_batch_async eventually returns, with every
\* ticket completed: completed = total.
C23_AsyncBatchReturns ==
    (mode = "async") ~>
        (/\ batch_result.status = "returned"
         /\ progress.completed = progress.total
         /\ \A i \in DOMAIN task_pc : task_pc[i] = "done")

\* one slot, three tickets, the first two failing, and the batch has returned
C23_Witness ==
    /\ mode = "async"
    /\ concurrency = 1
    /\ Len(tickets) = 3
    /\ Raises(1)
    /\ Raises(2)
    /\ batch_result.status = "returned"
    /\ progress.completed = 3

C26_BackoffKeepsDoubling ==
    \A k \in 1..Len(sleeps) :
        /\ k <= Len(retry_delays) => sleeps[k] = retry_delays[k]
        /\ k > Len(retry_delays) => sleeps[k] = 2 * sleeps[k - 1]
        /\ k > 1 => sleeps[k] >= sleeps[k - 1]

\* C27: a response whose content is empty or is not valid JSON makes complete
\* raise LLMValidationError after that request: it is the last request made,
\* no delay is waited for it, and the usage it reported is already in the
\* cumulative counters.
C27_ValidationErrorNotRetried ==
    \A i \in DOMAIN responses :
        responses[i].kind \in {"empty", "not_json"} =>
            /\ i = Len(responses)
            /\ attempt = i
            /\ complete_result = CompleteResult("raised", "LLMValidationError")
            /\ Len(sleeps) = i - 1
            /\ responses[i].has_usage =>
                  token_usage = TokenUsage_add(TokenUsage(0, 0, 0, 0), ResponseUsage)
            /\ ~responses[i].has_usage => token_usage = TokenUsage(0, 0, 0, 0)

\* the first request answers with content that is not JSON and reports usage,
\* with attempts left
C27_Witness ==
    /\ max_retries = 3
    /\ Len(responses) = 1
    /\ responses[1].kind = "not_json"
    /\ responses[1].has_usage
    /\ sleeps = <<>>
    /\ token_usage.request_count = 1
    /\ complete_result = CompleteResult("raised", "LLMValidationError")

(***************************************************************************)
(* ScoringCalculator: deductions                                           *)
(***************************************************************************)
\* The negative points of a Deduction outcome, 0 for any other outcome.
deduction_points(result) ==
    IF result.score.isstr
    THEN IF result.score.s \in IntLiterals /\ int(result.score.s) < 0
         THEN int(result.score.s) ELSE 0
    ELSE IF result.score.n < 0 THEN result.score.n ELSE 0

deduction_flagged(t, id) ==
    /\ get_criterion_by_id(t, id) # NoCriterion
    /\ get_criterion_by_id(t, id).is_deduction

RECURSIVE sum_deduction_outcomes(_, _)
sum_deduction_outcomes(rs, t) ==
    IF rs = <<>> THEN 0
    ELSE (IF deduction_flagged(t, Head(rs).criterion_id)
          THEN deduction_points(Head(rs)) ELSE 0)
         + sum_deduction_outcomes(Tail(rs), t)

reports(id, points) ==
    \E i \in DOMAIN all_results :
        /\ all_results[i].criterion_id = id
        /\ deduction_points(all_results[i]) = points

ThreadsDone ==
    /\ workers # <<>>
    /\ \A t \in DOMAIN workers : workers[t].pc = "request" /\ workers[t].left = 0

FormatReturned == strengths.returned /\ improvements.returned

\* the result the list holds for a criterion (one result per criterion)
result_for(id) ==
    fmt_results[CHOOSE i \in DOMAIN fmt_results : fmt_results[i].criterion_id = id]

criterion_for(id) == get_criterion_by_id(fmt_template, id)

IsPass(result) == result.score.isstr /\ upper(result.score.s) = "PASS"
IsFail(result) == result.score.isstr /\ upper(result.score.s) = "FAIL"
IsNumber(result) == ~score_not_int(result)

\* at least 90% of the criterion's max, or Pass
QualifiesAsStrength(id) ==
    \/ IsPass(result_for(id))
    \/ /\ IsNumber(result_for(id))
       /\ criterion_for(id).max_points > 0
       /\ 10 * score_val(result_for(id)) >= 9 * criterion_for(id).max_points

\* below 70% of the criterion's max, or Fail, or a negative deduction
QualifiesAsImprovement(id) ==
    \/ IsFail(result_for(id))
    \/ /\ IsNumber(result_for(id))
       /\ criterion_for(id).is_deduction
       /\ score_val(result_for(id)) < 0
    \/ /\ IsNumber(result_for(id))
       /\ criterion_for(id).max_points > 0
       /\ 10 * score_val(result_for(id)) < 7 * criterion_for(id).max_points

\* the weight of an entry's criterion in the score
material(entry) == criterion_for(entry.criterion_id).max_points

StrengthCriteria ==
    {fmt_results[i].criterion_id : i \in DOMAIN fmt_results} \cap
    {id \in {fmt_results[i].criterion_id : i \in DOMAIN fmt_results} :
        /\ criterion_for(id) # NoCriterion
        /\ QualifiesAsStrength(id)}

Kept(list) == {list[i].criterion_id : i \in DOMAIN list}

\* C30: collect_strengths returns at most 5 entries, each for a criterion
\* scoring at least 90% of its max (or Pass); collect_improvements returns
\* at most 5 entries, each for a criterion scoring below 70% of its max (or
\* Fail, or a negative deduction); no criterion is in both lists; and when
\* more than 5 criteria qualify as strengths the most material ones are
\* kept, most material first.
C30_StrengthsAndImprovements ==
    FormatReturned =>
        /\ Len(strengths.list) <= 5
        /\ \A i \in DOMAIN strengths.list :
              QualifiesAsStrength(strengths.list[i].criterion_id)
        /\ Len(improvements.list) <= 5
        /\ \A i \in DOMAIN improvements.list :
              QualifiesAsImprovement(improvements.list[i].criterion_id)
        /\ Kept(strengths.list) \cap Kept(improvements.list) = {}
        /\ Cardinality(StrengthCriteria) > 5 =>
              /\ \A i \in DOMAIN strengths.list :
                    \A id \in StrengthCriteria \ Kept(strengths.list) :
                        material(strengths.list[i]) >= criterion_for(id).max_points
              /\ \A i, j \in DOMAIN strengths.list :
                    i < j => material(strengths.list[i]) >= material(strengths.list[j])

(***************************************************************************)
(* ShortDescriptionValidator: the score                                    *)
(***************************************************************************)
\* C21: for every short description the validator awards max(0, 8 - 2 *
\* issue_count) points, 0/1/2/3/4 or more issues giving 8/6/4/2/0, so the
\* score is one of 0, 2, 4, 6, 8; an empty short description gives 0 points
\* with coaching.
C21_ShortDescriptionScore ==
    sd_result.returned =>
        /\ ~is_blank(short_description) =>
              sd_result.score = Max(0, 8 - 2 * Len(sd_result.issues))
        /\ sd_result.score \in {0, 2, 4, 6, 8}
        /\ is_blank(short_description) =>
              /\ sd_result.score = 0
              /\ sd_result.coaching # "None"

\* a description with no separator and three letters or more: the LoB, the
\* location and the application are missing, 2 points
C21_Witness ==
    /\ sd_result.returned
    /\ short_description = ShortDescription("none", <<"London">>)
    /\ Len(sd_result.issues) = 3
    /\ sd_result.score = 2

=============================================================================
